---- MODULE Spec2Model ----
(***************************************************************************)
(* Shift generator: the rule-to-constraint compilers of shift_model.py,    *)
(* the model they assemble, the solve call and the decoding of its result. *)
(*                                                                         *)
(* Python indices are 0-based; sequences here are 1-based, so e_idx,       *)
(* d_idx and s_idx are the Python index plus one.  Japanese names are      *)
(* written in ASCII: "day" = 日勤, "rest" = 公休, "night" = 夜勤,          *)
(* "early" = 早出, "ake" = 明勤, "full" = 常勤, "part" = パート,           *)
(* "childcare" = 育休, "sick" = 病休.                                      *)
(***************************************************************************)
EXTENDS Integers, Sequences, FiniteSets, TLC

VARIABLES pc, employee_info_df, dates, model, variables, all_penalty_terms,
          last_call, applied, status, solver_values, assigned_shifts_df, csv_saved

vars == <<pc, employee_info_df, dates, model, variables, all_penalty_terms,
          last_call, applied, status, solver_values, assigned_shifts_df, csv_saved>>

(***************************************************************************)
(* Bounds of the model.                                                    *)
(***************************************************************************)
MaxEmp == 3      \* employees in the roster
MaxDays == 3     \* dates of the horizon
MaxCells == 4    \* (employee, date) slots of one run
MaxRules == 2    \* compiler calls of one run that change the model
MaxDecodeCells == 2   \* slots of a table decoded from arbitrary 0/1 values

(***************************************************************************)
(* Module constants of shift_model.py.  The variable space is exponential  *)
(* in the shift list, so the runs pass the compilers the first three names *)
(* of SHIFTS (every compiler takes the list as its `shifts` argument).     *)
(***************************************************************************)
SHIFTS == <<"day", "rest", "night">>
WORKING_SHIFTS_FOR_DAILY_TOTAL == <<"day", "early", "night", "ake">>

\* Calendar days as "%Y-%m-%d" strings; a date object is its index here.
\* Index 2 is START_DATE_STR, a Thursday.
Calendar == <<"2025-04-09", "2025-04-10", "2025-04-11", "2025-04-12",
              "2025-04-13", "2025-04-14", "2025-04-15", "2025-04-16">>
START_DATE_STR == "2025-04-10"

\* datetime.strptime(s, "%Y-%m-%d").date(): <<date>>, or <<>> for ValueError
strptime(s) ==
    IF \E i \in 1..Len(Calendar) : Calendar[i] = s
    THEN <<CHOOSE i \in 1..Len(Calendar) : Calendar[i] = s>>
    ELSE <<>>

strftime(date) == Calendar[date]

\* date.weekday(): Monday is 0; Calendar[1] is a Wednesday
weekday(date) == (date + 1) % 7

(***************************************************************************)
(* Sequence helpers.                                                       *)
(***************************************************************************)
RECURSIVE FoldSeq(_, _, _)
FoldSeq(Op(_, _), acc, s) ==
    IF s = <<>> THEN acc ELSE FoldSeq(Op, Op(acc, Head(s)), Tail(s))

RECURSIVE Flatten(_)
Flatten(ss) == IF ss = <<>> THEN <<>> ELSE Head(ss) \o Flatten(Tail(ss))

\* list.index(x): <<position>>, or <<>> for ValueError
IndexOf(s, x) ==
    IF \E i \in 1..Len(s) : s[i] = x
    THEN <<CHOOSE i \in 1..Len(s) : s[i] = x /\ \A j \in 1..(i - 1) : s[j] # x>>
    ELSE <<>>

InSeq(x, s) == \E i \in 1..Len(s) : s[i] = x

Ones(n) == [i \in 1..n |-> 1]

RECURSIVE SumSeq(_)
SumSeq(s) == IF s = <<>> THEN 0 ELSE Head(s) + SumSeq(Tail(s))

(***************************************************************************)
(* The roster: load_employee_data reads the first n records of the file.   *)
(***************************************************************************)
EmployeeIds == <<"A001", "A002", "A003", "A004", "A005">>

EmployeeRecord(i) ==
    [id     |-> EmployeeIds[i],
     floor  |-> IF i % 3 = 0 THEN "2F" ELSE "1F",
     etype  |-> IF i % 3 = 0 THEN "part" ELSE "full",
     status |-> IF i % 3 = 2 THEN "childcare" ELSE IF i % 3 = 0 THEN "sick" ELSE ""]

Roster(n) == [i \in 1..n |-> EmployeeRecord(i)]

employee_ids_of(df) == [i \in 1..Len(df) |-> df[i].id]

\* generate_date_range: <<date_list>>, or <<>> for None
generate_date_range(start_date_str, end_date_str) ==
    LET s == strptime(start_date_str)
        e == strptime(end_date_str)
    IN  IF s = <<>> \/ e = <<>> THEN <<>>
        ELSE IF s[1] > e[1] THEN <<>>
        ELSE <<[i \in 1..(e[1] - s[1] + 1) |-> s[1] + i - 1]>>

(***************************************************************************)
(* The CP-SAT model: variable domains, constraints, objective.             *)
(* A variable is its index in model.doms.                                  *)
(***************************************************************************)
Lin(vs, cs, op, rhs) == [kind |-> "lin", vars |-> vs, coefs |-> cs, op |-> op, rhs |-> rhs]

\* model.NewIntVar / NewBoolVar on an assembly record m
NewIntVar(m, lb, ub) == [m EXCEPT !.doms = Append(@, <<lb, ub>>)]
LastVar(m) == Len(m.doms)
ReplaceCons(m, c) == [m EXCEPT !.cons = <<c>>]
AddCons(m, c) == [m EXCEPT !.cons = Append(@, c)]
AddPenalty(m, v, w) == [m EXCEPT !.pen = Append(@, <<v, w>>)]

XIndexPerCell(e, d, s, num_days, num_shifts) == ((e - 1) * num_days + (d - 1)) * num_shifts + 1

\* x[e_idx, d_idx, s_idx] of build_shift_assignment_model
XIndex(e, d, s, num_days, num_shifts) == ((e - 1) * num_days + (d - 1)) * num_shifts + s

CoverageAtMostOne(reg, e, d, num_shifts) ==
    Lin([s \in 1..num_shifts |-> reg[<<e, d, s>>]], Ones(num_shifts), "<=", 1)

\* model.Add(sum(x[e_idx, d_idx, s_idx] for s_idx in range(num_shifts)) == 1)
CoverageConstraint(reg, e, d, num_shifts) ==
    Lin([s \in 1..num_shifts |-> reg[<<e, d, s>>]], Ones(num_shifts), "==", 1)

CoverageSlotsButLastDay(num_employees, num_days) ==
    Flatten([e \in 1..num_employees |-> [d \in 1..(num_days - 1) |-> <<e, d>>]])

\* "for e_idx in range(num_employees): for d_idx in range(num_days)"
CoverageSlots(num_employees, num_days) ==
    Flatten([e \in 1..num_employees |-> [d \in 1..num_days |-> <<e, d>>]])

build_shift_assignment_model(employee_ids, ds, shifts) ==
    LET num_employees == Len(employee_ids)
        num_days == Len(ds)
        num_shifts == Len(shifts)
        x == [t \in (1..num_employees) \X (1..num_days) \X (1..num_shifts) |->
                 XIndex(t[1], t[2], t[3], num_days, num_shifts)]
        slots == CoverageSlots(num_employees, num_days)
    IN  [model |-> [doms |-> [i \in 1..(num_employees * num_days * num_shifts) |-> <<0, 1>>],
                    cons |-> [i \in 1..Len(slots) |->
                                 CoverageConstraint(x, slots[i][1], slots[i][2], num_shifts)],
                    objective |-> <<>>,
                    minimize |-> FALSE],
         variables |-> x]

(***************************************************************************)
(* The solver capability: cp_model.CpSolver().Solve(model).  A valuation   *)
(* is a sequence of integers, one per variable.  Solutions enumerates the  *)
(* valuations that satisfy every constraint, variable by variable, and     *)
(* drops a partial valuation as soon as a constraint over assigned         *)
(* variables fails.                                                        *)
(***************************************************************************)
RECURSIVE LinSum(_, _, _)
LinSum(c, val, n) ==
    IF n = 0 THEN 0 ELSE c.coefs[n] * val[c.vars[n]] + LinSum(c, val, n - 1)

Compare(a, op, b) ==
    CASE op = "==" -> a = b
      [] op = "<=" -> a <= b
      [] op = ">=" -> a >= b

SetMin(S) == CHOOSE x \in S : \A y \in S : x <= y
SetMax(S) == CHOOSE x \in S : \A y \in S : x >= y

\* Does valuation val satisfy constraint c?
Holds(c, val) ==
    CASE c.kind = "lin" -> Compare(LinSum(c, val, Len(c.vars)), c.op, c.rhs)
      [] c.kind = "impl" -> (val[c.vars[1]] = 1) => (val[c.vars[2]] = 1)
      [] c.kind = "boolor" ->
            \E i \in 1..Len(c.vars) :
                IF c.coefs[i] = 1 THEN val[c.vars[i]] = 1 ELSE val[c.vars[i]] = 0
      [] c.kind = "min_eq" ->
            val[c.vars[1]] = SetMin({val[c.vars[i]] : i \in 2..Len(c.vars)})
      [] c.kind = "max_eq" ->
            val[c.vars[1]] = SetMax({val[c.vars[i]] : i \in 2..Len(c.vars)})

MaxVar(c) == IF c.vars = <<>> THEN 0 ELSE SetMax({c.vars[i] : i \in 1..Len(c.vars)})

RECURSIVE Search(_, _, _, _)
Search(k, doms, cons, mv) ==
    IF k = 0
    THEN IF \A i \in 1..Len(cons) : mv[i] = 0 => Holds(cons[i], <<>>) THEN {<<>>} ELSE {}
    ELSE LET prev == Search(k - 1, doms, cons, mv)
             due == {i \in 1..Len(cons) : mv[i] = k}
         IN  {q \in UNION {{Append(p, v) : v \in doms[k][1]..doms[k][2]} : p \in prev} :
                 \A i \in due : Holds(cons[i], q)}

Solutions(m) ==
    Search(Len(m.doms), m.doms, m.cons, [i \in 1..Len(m.cons) |-> MaxVar(m.cons[i])])

\* a variable with an empty domain makes the model invalid
ModelInvalid(m) == \E k \in 1..Len(m.doms) : m.doms[k][1] > m.doms[k][2]

RECURSIVE ObjectiveValue(_, _)
ObjectiveValue(terms, val) ==
    IF terms = <<>> THEN 0
    ELSE Head(terms)[2] * val[Head(terms)[1]] + ObjectiveValue(Tail(terms), val)

\* The outcomes of Solve: <<status, valuation>> pairs.  The search runs with
\* no limit (CpSolver() keeps its default parameters), so it ends with a
\* decision: a solution is reported as FEASIBLE, or as OPTIMAL when no
\* solution has a smaller objective.
SolveOutcomes(m) ==
    IF ModelInvalid(m) THEN {<<"MODEL_INVALID", <<>> >>}
    ELSE LET sols == Solutions(m)
         IN  IF sols = {} THEN {<<"INFEASIBLE", <<>> >>}
             ELSE LET best == SetMin({ObjectiveValue(m.objective, v) : v \in sols})
                  IN  {<<"FEASIBLE", v>> : v \in sols}
                      \cup {<<"OPTIMAL", v>> :
                               v \in {w \in sols : ObjectiveValue(m.objective, w) = best}}

(***************************************************************************)
(* Decoding: the table of solve_and_get_results, keyed by                  *)
(* <<employee id, date string>>.  "NaN" is a cell no shift was written to. *)
(***************************************************************************)
DecodeCellLast(val, reg, e, d, shifts) ==
    IF \E s \in 1..Len(shifts) : val[reg[<<e, d, s>>]] = 1
    THEN shifts[CHOOSE s \in 1..Len(shifts) :
                    /\ val[reg[<<e, d, s>>]] = 1
                    /\ \A t \in (s + 1)..Len(shifts) : val[reg[<<e, d, t>>]] # 1]
    ELSE "NaN"

\* "for s_idx, shift_name in enumerate(shifts): if solver.Value(...) == 1:
\* results_df.loc[emp_id, date_str] = shift_name; break"
DecodeCell(val, reg, e, d, shifts) ==
    IF \E s \in 1..Len(shifts) : val[reg[<<e, d, s>>]] = 1
    THEN shifts[CHOOSE s \in 1..Len(shifts) :
                    /\ val[reg[<<e, d, s>>]] = 1
                    /\ \A t \in 1..(s - 1) : val[reg[<<e, d, t>>]] # 1]
    ELSE "NaN"

DecodeTable(val, reg, employee_ids, ds, shifts) ==
    [k \in {<<employee_ids[e], strftime(ds[d])>> : e \in 1..Len(employee_ids), d \in 1..Len(ds)} |->
        LET e == CHOOSE e \in 1..Len(employee_ids) : employee_ids[e] = k[1]
            d == CHOOSE d \in 1..Len(ds) : strftime(ds[d]) = k[2]
        IN  DecodeCell(val, reg, e, d, shifts)]

\* <<table>> when a solution was found, <<>> (None) otherwise
DecodeResults(st, val, reg, employee_ids, ds, shifts) ==
    IF st = "OPTIMAL" \/ st = "FEASIBLE"
    THEN <<DecodeTable(val, reg, employee_ids, ds, shifts)>>
    ELSE IF st = "INFEASIBLE" THEN <<>>
    ELSE IF st = "MODEL_INVALID" THEN <<>>
    ELSE <<>>

(***************************************************************************)
(* Rule configuration.  A dict is a record whose optional keys hold <<>>   *)
(* when absent and <<value>> when present.                                 *)
(***************************************************************************)
\* dict.get(key, default)
Get(opt, default) == IF opt = <<>> THEN default ELSE opt[1]

\* `not value` for a string-valued key
Falsy(opt) == opt = <<>> \/ opt[1] = ""

(***************************************************************************)
(* add_staffing_constraints.  staffing_rules is a sequence of              *)
(* [floor, rules], rules a sequence of                                     *)
(* [shift_name, target, constraint_type, under_penalty_weight,             *)
(*  over_penalty_weight].                                                  *)
(***************************************************************************)
HardStaffingAtMost(current_shift_vars, target_staff_count) ==
    Lin(current_shift_vars, Ones(Len(current_shift_vars)), "<=", target_staff_count)

\* model.Add(sum(current_shift_vars) == target_staff_count)
HardStaffing(current_shift_vars, target_staff_count) ==
    Lin(current_shift_vars, Ones(Len(current_shift_vars)), "==", target_staff_count)

FloorEmployeeIndices(df, floor) ==
    SelectSeq([i \in 1..Len(df) |-> i], LAMBDA e : df[e].floor = floor)

ShortageOnlyLink(current_shift_vars, shortage, excess, target_staff_count) ==
    Lin(current_shift_vars \o <<shortage>>, Ones(Len(current_shift_vars)) \o <<1>>,
        ">=", target_staff_count)

\* model.Add(target_staff_count - actual_staff_sum == shortage - excess)
ShortageExcessLink(current_shift_vars, shortage, excess, target_staff_count) ==
    Lin(current_shift_vars \o <<shortage, excess>>,
        Ones(Len(current_shift_vars)) \o <<1, -1>>, "==", target_staff_count)

StaffingRule(m, reg, df, shifts, d_idx, floor, rule) ==
    LET floor_employee_indices == FloorEmployeeIndices(df, floor)
        s == IndexOf(shifts, rule.shift_name)
    IN  IF floor_employee_indices = <<>> THEN m
        ELSE IF s = <<>> THEN m
        ELSE IF rule.target = <<>> THEN m
        ELSE
        LET target_staff_count == rule.target[1]
            constraint_type == Get(rule.constraint_type, "hard")
            n == Len(floor_employee_indices)
            current_shift_vars == [i \in 1..n |-> reg[<<floor_employee_indices[i], d_idx, s[1]>>]]
        IN  IF constraint_type = "hard"
            THEN AddCons(m, HardStaffing(current_shift_vars, target_staff_count))
            ELSE IF constraint_type = "soft"
            THEN LET under_penalty_weight == Get(rule.under_penalty_weight, 0)
                     over_penalty_weight == Get(rule.over_penalty_weight, 0)
                     m1 == NewIntVar(m, 0, target_staff_count)
                     shortage == LastVar(m1)
                     m2 == NewIntVar(m1, 0, n - target_staff_count)
                     excess == LastVar(m2)
                     m3 == AddCons(m2, ShortageExcessLink(current_shift_vars, shortage, excess,
                                                          target_staff_count))
                     m4 == IF under_penalty_weight > 0
                           THEN AddPenalty(m3, shortage, under_penalty_weight) ELSE m3
                 IN  IF over_penalty_weight > 0
                     THEN AddPenalty(m4, excess, over_penalty_weight) ELSE m4
            ELSE m

add_staffing_constraints(m, reg, df, ds, shifts, staffing_rules) ==
    LET work == Flatten([d \in 1..Len(ds) |->
                    Flatten([f \in 1..Len(staffing_rules) |->
                        [r \in 1..Len(staffing_rules[f].rules) |->
                            [d_idx |-> d, floor |-> staffing_rules[f].floor,
                             rule |-> staffing_rules[f].rules[r]]]])])
        Step(acc, w) == StaffingRule(acc, reg, df, shifts, w.d_idx, w.floor, w.rule)
    IN  FoldSeq(Step, m, work)

(***************************************************************************)
(* add_shift_request_constraint.  shift_requests is a sequence of          *)
(* [employee_id, date_str, requested_shift, constraint_type,               *)
(*  penalty_weight].                                                       *)
(***************************************************************************)
ViolationAtLeast(requested_var, request_violated_var) ==
    Lin(<<requested_var, request_violated_var>>, <<1, 1>>, ">=", 1)

\* model.Add(variables[e_idx, d_idx, req_s_idx] + request_violated_var == 1)
ViolationLink(requested_var, request_violated_var) ==
    Lin(<<requested_var, request_violated_var>>, <<1, 1>>, "==", 1)

RequestNotForced(requested_var) == Lin(<<requested_var>>, <<1>>, ">=", 0)

\* model.Add(variables[e_idx, d_idx, req_s_idx] == 1)
RequestHard(requested_var) == Lin(<<requested_var>>, <<1>>, "==", 1)

ShiftRequest(m, reg, df, ds, shifts, request_rule) ==
    LET employee_ids == employee_ids_of(df)
        penalty_weight == Get(request_rule.penalty_weight, 0)
        constraint_type == Get(request_rule.constraint_type, "soft")
        e == IndexOf(employee_ids, Get(request_rule.employee_id, ""))
        request_date_obj == strptime(Get(request_rule.date_str, ""))
        d == IF request_date_obj = <<>> THEN <<>> ELSE IndexOf(ds, request_date_obj[1])
        req_s == IndexOf(shifts, Get(request_rule.requested_shift, ""))
    IN  IF Falsy(request_rule.employee_id) \/ Falsy(request_rule.date_str)
           \/ Falsy(request_rule.requested_shift) THEN m
        ELSE IF constraint_type = "soft" /\ penalty_weight <= 0 THEN m
        ELSE IF e = <<>> THEN m
        ELSE IF request_date_obj = <<>> THEN m
        ELSE IF d = <<>> THEN m
        ELSE IF req_s = <<>> THEN m
        ELSE IF constraint_type = "hard"
        THEN AddCons(m, RequestHard(reg[<<e[1], d[1], req_s[1]>>]))
        ELSE IF constraint_type = "soft"
        THEN LET m1 == NewIntVar(m, 0, 1)
                 request_violated_var == LastVar(m1)
                 m2 == AddCons(m1, ViolationLink(reg[<<e[1], d[1], req_s[1]>>],
                                                 request_violated_var))
             IN  AddPenalty(m2, request_violated_var, penalty_weight)
        ELSE m

add_shift_request_until_skip(m, reg, df, ds, shifts, shift_requests) ==
    LET Step(acc, request_rule) ==
            LET out == ShiftRequest(acc.m, reg, df, ds, shifts, request_rule)
            IN  IF acc.returned \/ out = acc.m
                THEN [m |-> acc.m, returned |-> TRUE]
                ELSE [m |-> out, returned |-> FALSE]
    IN  FoldSeq(Step, [m |-> m, returned |-> FALSE], shift_requests).m

\* "for req_idx, request_rule in enumerate(shift_requests)", a skipped
\* request goes on to the next one
add_shift_request_constraint(m, reg, df, ds, shifts, shift_requests) ==
    LET Step(acc, request_rule) == ShiftRequest(acc, reg, df, ds, shifts, request_rule)
    IN  FoldSeq(Step, m, shift_requests)

(***************************************************************************)
(* add_employee_status_constraint.  The input is                           *)
(* [status_values_for_full_leave, leave_shift_name].                       *)
(***************************************************************************)
StatusLeaveFirstDayOnly(num_days) == IF num_days >= 1 THEN <<1>> ELSE <<>>

\* "for d_idx in range(num_days)" of a forced-leave employee
StatusLeaveDays(num_days) == [d \in 1..num_days |-> d]

StatusLeaveUnlessRequested(m, leave_var, slot_vars) ==
    IF \E i \in 1..Len(m.cons) :
          /\ m.cons[i].kind = "lin" /\ m.cons[i].op = "==" /\ m.cons[i].rhs = 1
          /\ Len(m.cons[i].vars) = 1
          /\ m.cons[i].vars[1] # leave_var
          /\ \E s \in 1..Len(slot_vars) : slot_vars[s] = m.cons[i].vars[1]
    THEN m
    ELSE AddCons(m, Lin(<<leave_var>>, <<1>>, "==", 1))

\* model.Add(variables[e_idx, d_idx, leave_s_idx] == 1); slot_vars are the
\* variables of the slot, which the compiler does not look at
StatusLeave(m, leave_var, slot_vars) == AddCons(m, Lin(<<leave_var>>, <<1>>, "==", 1))

StatusOnLeave(emp_row, status_values_for_full_leave) ==
    emp_row.status # "" /\ InSeq(emp_row.status, status_values_for_full_leave)

add_employee_status_constraint(m, reg, df, ds, shifts, rule) ==
    LET leave_s == IndexOf(shifts, rule.leave_shift_name)
        num_days == Len(ds)
        work == Flatten([e \in 1..Len(df) |->
                    IF StatusOnLeave(df[e], rule.status_values_for_full_leave)
                    THEN LET days == StatusLeaveDays(num_days)
                         IN  [i \in 1..Len(days) |-> <<e, days[i]>>]
                    ELSE <<>>])
        Step(acc, w) == StatusLeave(acc, reg[<<w[1], w[2], leave_s[1]>>],
                                    [s \in 1..Len(shifts) |-> reg[<<w[1], w[2], s>>]])
    IN  IF rule.status_values_for_full_leave = <<>> THEN m
        ELSE IF leave_s = <<>> THEN m
        ELSE FoldSeq(Step, m, work)

(***************************************************************************)
(* add_min_holidays_constraint.  rule_details is                           *)
(* [min_days, target_employment_type, constraint_type,                     *)
(*  under_penalty_weight].                                                 *)
(***************************************************************************)
MinHolidaysAtMost(employee_holidays_vars, min_holidays) ==
    Lin(employee_holidays_vars, Ones(Len(employee_holidays_vars)), "<=", min_holidays)

\* model.Add(actual_holidays_sum >= min_holidays)
MinHolidaysHard(employee_holidays_vars, min_holidays) ==
    Lin(employee_holidays_vars, Ones(Len(employee_holidays_vars)), ">=", min_holidays)

MinHolidaysEmployee(m, reg, df, num_days, holiday_shift_idx, rule_details, e_idx) ==
    LET min_holidays == rule_details.min_days[1]
        target_employment_type == Get(rule_details.target_employment_type, "full")
        constraint_type == Get(rule_details.constraint_type, "hard")
        under_penalty_weight == Get(rule_details.under_penalty_weight, 0)
        employee_holidays_vars == [d \in 1..num_days |-> reg[<<e_idx, d, holiday_shift_idx>>]]
    IN  IF df[e_idx].etype # target_employment_type THEN m
        ELSE IF constraint_type = "hard"
        THEN AddCons(m, MinHolidaysHard(employee_holidays_vars, min_holidays))
        ELSE IF constraint_type = "soft" /\ under_penalty_weight > 0
        THEN LET m1 == NewIntVar(m, 0, min_holidays)
                 shortage == LastVar(m1)
                 m2 == AddCons(m1, Lin(Append(employee_holidays_vars, shortage),
                                       Ones(num_days + 1), ">=", min_holidays))
             IN  AddPenalty(m2, shortage, under_penalty_weight)
        ELSE m

add_min_holidays_constraint(m, reg, df, ds, shifts, rule_details) ==
    LET holiday_shift_idx == IndexOf(shifts, "rest")
        Step(acc, e_idx) ==
            MinHolidaysEmployee(acc, reg, df, Len(ds), holiday_shift_idx[1], rule_details, e_idx)
    IN  IF rule_details.min_days = <<>> THEN m
        ELSE IF holiday_shift_idx = <<>> THEN m
        ELSE FoldSeq(Step, m, [i \in 1..Len(df) |-> i])

(***************************************************************************)
(* add_max_consecutive_workdays_constraint.  rule_details is               *)
(* [max_days, work_shifts, constraint_type, over_penalty_weight].          *)
(***************************************************************************)
EveryShiftIndex(shifts, work_shift_names) == [i \in 1..Len(shifts) |-> i]

WorkShiftIndices(shifts, work_shift_names) ==
    SelectSeq([i \in 1..Len(shifts) |-> i], LAMBDA s : InSeq(shifts[s], work_shift_names))

FirstWindowOnly(num_days, window_size) ==
    IF num_days - window_size + 1 >= 1 THEN <<1>> ELSE <<>>

\* "for d_idx in range(num_days - window_size + 1)"
WindowStarts(num_days, window_size) == [d \in 1..(num_days - window_size + 1) |-> d]

ConsecutiveWindow(m, reg, work_shift_indices, rule_details, e_idx, d_idx) ==
    LET max_consecutive_days == rule_details.max_days[1]
        constraint_type == Get(rule_details.constraint_type, "hard")
        over_penalty_weight == Get(rule_details.over_penalty_weight, 0)
        window_size == max_consecutive_days + 1
        vars_in_window ==
            Flatten([day_offset \in 1..window_size |->
                [i \in 1..Len(work_shift_indices) |->
                    reg[<<e_idx, d_idx + day_offset - 1, work_shift_indices[i]>>]]])
        n == Len(vars_in_window)
    IN  IF constraint_type = "hard"
        THEN AddCons(m, Lin(vars_in_window, Ones(n), "<=", max_consecutive_days))
        ELSE IF constraint_type = "soft" /\ over_penalty_weight > 0
        THEN LET m1 == NewIntVar(m, 0, window_size - max_consecutive_days)
                 excess_days == LastVar(m1)
                 \* sum(vars_in_window) - max_consecutive_days <= excess_days
                 m2 == AddCons(m1, Lin(Append(vars_in_window, excess_days),
                                       Ones(n) \o <<-1>>, "<=", max_consecutive_days))
             IN  AddPenalty(m2, excess_days, over_penalty_weight)
        ELSE m

add_max_consecutive_workdays_constraint(m, reg, employee_ids, ds, shifts, rule_details) ==
    LET work_shift_names == Get(rule_details.work_shifts, <<>>)
        work_shift_indices == WorkShiftIndices(shifts, work_shift_names)
        window_size == rule_details.max_days[1] + 1
        work == Flatten([e \in 1..Len(employee_ids) |->
                    LET starts == WindowStarts(Len(ds), window_size)
                    IN  [i \in 1..Len(starts) |-> <<e, starts[i]>>]])
        Step(acc, w) == ConsecutiveWindow(acc, reg, work_shift_indices, rule_details, w[1], w[2])
    IN  IF work_shift_names = <<>> THEN m
        ELSE IF rule_details.max_days = <<>> THEN m
        ELSE IF rule_details.max_days[1] <= 0 THEN m
        ELSE IF work_shift_indices = <<>> THEN m
        ELSE FoldSeq(Step, m, work)

(***************************************************************************)
(* add_sequential_shift_constraint.  rule_details is                       *)
(* [previous_shift_name, next_shift_name, constraint_type, penalty_weight].*)
(***************************************************************************)
ViolationClauseWithoutNext(prev_var, next_var, penalty_violation) ==
    [kind |-> "boolor", vars |-> <<prev_var, penalty_violation>>,
     coefs |-> <<-1, 1>>, op |-> "or", rhs |-> 0]

\* model.AddBoolOr([prev.Not(), next, penalty_violation])
ViolationClause(prev_var, next_var, penalty_violation) ==
    [kind |-> "boolor", vars |-> <<prev_var, next_var, penalty_violation>>,
     coefs |-> <<-1, 1, 1>>, op |-> "or", rhs |-> 0]

ImplicationReversed(a, b) ==
    [kind |-> "impl", vars |-> <<b, a>>, coefs |-> <<1, 1>>, op |-> "=>", rhs |-> 0]

\* model.AddImplication(prev_shift_assigned_var, next_shift_assigned_var)
AddImplication(a, b) ==
    [kind |-> "impl", vars |-> <<a, b>>, coefs |-> <<1, 1>>, op |-> "=>", rhs |-> 0]

SequentialPair(m, reg, prev_s_idx, next_s_idx, rule_details, e_idx, d_idx) ==
    LET constraint_type == Get(rule_details.constraint_type, "hard")
        penalty_weight == Get(rule_details.penalty_weight, 0)
        prev_shift_assigned_var == reg[<<e_idx, d_idx, prev_s_idx>>]
        next_shift_assigned_var == reg[<<e_idx, d_idx + 1, next_s_idx>>]
    IN  IF constraint_type = "hard"
        THEN AddCons(m, AddImplication(prev_shift_assigned_var, next_shift_assigned_var))
        ELSE IF constraint_type = "soft" /\ penalty_weight > 0
        THEN LET m1 == NewIntVar(m, 0, 1)
                 penalty_violation == LastVar(m1)
                 m2 == AddCons(m1, ViolationClause(prev_shift_assigned_var,
                                                   next_shift_assigned_var, penalty_violation))
             IN  AddPenalty(m2, penalty_violation, penalty_weight)
        ELSE m

add_sequential_shift_constraint(m, reg, employee_ids, ds, shifts, rule_details) ==
    LET prev_s_idx == IndexOf(shifts, Get(rule_details.previous_shift_name, ""))
        next_s_idx == IndexOf(shifts, Get(rule_details.next_shift_name, ""))
        work == Flatten([e \in 1..Len(employee_ids) |-> [d \in 1..(Len(ds) - 1) |-> <<e, d>>]])
        Step(acc, w) ==
            SequentialPair(acc, reg, prev_s_idx[1], next_s_idx[1], rule_details, w[1], w[2])
    IN  IF Falsy(rule_details.previous_shift_name) \/ Falsy(rule_details.next_shift_name) THEN m
        ELSE IF prev_s_idx = <<>> THEN m
        ELSE IF next_s_idx = <<>> THEN m
        ELSE FoldSeq(Step, m, work)

(***************************************************************************)
(* add_assignment_balance_constraint.  rule_details is                     *)
(* [target_employment_type, target_shift_name, constraint_type,            *)
(*  penalty_weight, max_diff_allowed].                                     *)
(***************************************************************************)
BalanceCount(m, reg, num_days, target_s_idx, e_idx) ==
    LET current_employee_assignments == [d \in 1..num_days |-> reg[<<e_idx, d, target_s_idx>>]]
        m1 == NewIntVar(m, 0, num_days)
        num_assignments_for_emp == LastVar(m1)
    IN  \* num_assignments_for_emp == sum(current_employee_assignments)
        AddCons(m1, Lin(Append(current_employee_assignments, num_assignments_for_emp),
                        Ones(num_days) \o <<-1>>, "==", 0))

BalanceDiffAtLeast(diff_assignments, max_assignments, min_assignments) ==
    Lin(<<diff_assignments, max_assignments, min_assignments>>, <<1, -1, 1>>, ">=", 0)

\* model.Add(diff_assignments == max_assignments - min_assignments)
BalanceDiff(diff_assignments, max_assignments, min_assignments) ==
    Lin(<<diff_assignments, max_assignments, min_assignments>>, <<1, -1, 1>>, "==", 0)

PairNotBalanced(n) == n <= 2

\* if len(target_employee_indices) <= 1: return penalty_terms
NothingToBalance(n) == n <= 1

add_assignment_balance_constraint(m, reg, df, ds, shifts, rule_details) ==
    LET num_days == Len(ds)
        constraint_type == Get(rule_details.constraint_type, "soft")
        penalty_weight == Get(rule_details.penalty_weight, 0)
        max_diff_allowed == rule_details.max_diff_allowed
        target_s_idx == IndexOf(shifts, Get(rule_details.target_shift_name, ""))
        target_employee_indices ==
            SelectSeq([i \in 1..Len(df) |-> i],
                      LAMBDA e : df[e].etype = Get(rule_details.target_employment_type, ""))
        n == Len(target_employee_indices)
        Step(acc, e_idx) == BalanceCount(acc, reg, num_days, target_s_idx[1], e_idx)
        m1 == FoldSeq(Step, m, target_employee_indices)
        num_assignments_vars == [i \in 1..n |-> Len(m.doms) + i]
        m2 == NewIntVar(m1, 0, num_days)
        min_assignments == LastVar(m2)
        m3 == NewIntVar(m2, 0, num_days)
        max_assignments == LastVar(m3)
        m4 == AddCons(m3, [kind |-> "min_eq", vars |-> <<min_assignments>> \o num_assignments_vars,
                           coefs |-> Ones(n + 1), op |-> "min", rhs |-> 0])
        m5 == AddCons(m4, [kind |-> "max_eq", vars |-> <<max_assignments>> \o num_assignments_vars,
                           coefs |-> Ones(n + 1), op |-> "max", rhs |-> 0])
        m6 == NewIntVar(m5, 0, num_days)
        diff_assignments == LastVar(m6)
        m7 == AddCons(m6, BalanceDiff(diff_assignments, max_assignments, min_assignments))
    IN  IF Falsy(rule_details.target_employment_type) \/ Falsy(rule_details.target_shift_name)
        THEN m
        ELSE IF constraint_type = "soft" /\ penalty_weight <= 0 THEN m
        ELSE IF constraint_type = "hard" /\ (max_diff_allowed = <<>> \/ max_diff_allowed[1] < 0)
        THEN m
        ELSE IF target_s_idx = <<>> THEN m
        ELSE IF NothingToBalance(n) THEN m
        ELSE IF constraint_type = "hard"
        THEN AddCons(m7, Lin(<<diff_assignments>>, <<1>>, "<=", max_diff_allowed[1]))
        ELSE IF constraint_type = "soft"
        THEN AddPenalty(m7, diff_assignments, penalty_weight)
        ELSE m7

(***************************************************************************)
(* add_avoid_same_shift_constraint.  avoid_rules is a sequence of          *)
(* [employee_pair, avoid_shifts, constraint_type].                         *)
(***************************************************************************)
AvoidShiftIndicesAllOrNone(shifts, avoid_shift_names) ==
    IF \A i \in 1..Len(avoid_shift_names) : IndexOf(shifts, avoid_shift_names[i]) # <<>>
    THEN Flatten([i \in 1..Len(avoid_shift_names) |-> IndexOf(shifts, avoid_shift_names[i])])
    ELSE <<>>

\* the indices of the listed names the shift list knows, in list order
AvoidShiftIndices(shifts, avoid_shift_names) ==
    Flatten([i \in 1..Len(avoid_shift_names) |-> IndexOf(shifts, avoid_shift_names[i])])

AvoidPairNever(var1, var2) == Lin(<<var1, var2>>, <<1, 1>>, "<=", 2)

\* model.Add(variables[e1_idx, d_idx, s_idx] + variables[e2_idx, d_idx, s_idx] <= 1)
AvoidPair(var1, var2) == Lin(<<var1, var2>>, <<1, 1>>, "<=", 1)

AvoidRule(m, reg, df, ds, shifts, rule) ==
    LET employee_ids == employee_ids_of(df)
        employee_pair_ids == rule.employee_pair
        avoid_shift_names == Get(rule.avoid_shifts, <<>>)
        constraint_type == Get(rule.constraint_type, "hard")
        e1 == IndexOf(employee_ids, employee_pair_ids[1][1])
        e2 == IndexOf(employee_ids, employee_pair_ids[1][2])
        avoid_s_indices == AvoidShiftIndices(shifts, avoid_shift_names)
        valid_avoid_shifts == Len(avoid_s_indices) = Len(avoid_shift_names)
        work == Flatten([d \in 1..Len(ds) |->
                    [i \in 1..Len(avoid_s_indices) |-> <<d, avoid_s_indices[i]>>]])
        Step(acc, w) ==
            AddCons(acc, AvoidPair(reg[<<e1[1], w[1], w[2]>>], reg[<<e2[1], w[1], w[2]>>]))
    IN  IF employee_pair_ids = <<>> THEN m
        ELSE IF Len(employee_pair_ids[1]) # 2 THEN m
        ELSE IF avoid_shift_names = <<>> THEN m
        ELSE IF e1 = <<>> \/ e2 = <<>> THEN m
        ELSE IF avoid_s_indices = <<>> /\ ~valid_avoid_shifts THEN m
        ELSE IF constraint_type = "hard" THEN FoldSeq(Step, m, work)
        ELSE m

add_avoid_same_shift_constraint(m, reg, df, ds, shifts, avoid_rules) ==
    LET Step(acc, rule) == AvoidRule(acc, reg, df, ds, shifts, rule)
    IN  FoldSeq(Step, m, avoid_rules)

(***************************************************************************)
(* add_total_workdays_constraint.  workdays_rules is a sequence of         *)
(* [employee_id, constraint_type, days, penalty_weight].                   *)
(***************************************************************************)
SoftExactOverOnly(m, over, under) == AddCons(m, over)

\* model.Add(work_days_expr - target_days <= diff_var)
\* model.Add(target_days - work_days_expr <= diff_var)
SoftExactLinks(m, over, under) == AddCons(AddCons(m, over), under)

TotalWorkdaysRule(m, reg, df, num_days, work_shift_indices, rule) ==
    LET employee_ids == employee_ids_of(df)
        penalty_weight == Get(rule.penalty_weight, 0)
        e == IndexOf(employee_ids, rule.employee_id[1])
        constraint_type == rule.constraint_type[1]
        target_days == rule.days[1]
        work_days_vars ==
            Flatten([d \in 1..num_days |->
                [i \in 1..Len(work_shift_indices) |-> reg[<<e[1], d, work_shift_indices[i]>>]]])
        n == Len(work_days_vars)
        m1 == NewIntVar(m, 0, num_days)
        aux == LastVar(m1)
        \* work_days_expr - target_days <= aux
        over == Lin(Append(work_days_vars, aux), Ones(n) \o <<-1>>, "<=", target_days)
        \* target_days - work_days_expr <= aux
        under == Lin(Append(work_days_vars, aux), Ones(n + 1), ">=", target_days)
    IN  IF rule.employee_id = <<>> \/ rule.constraint_type = <<>> \/ rule.days = <<>> THEN m
        ELSE IF e = <<>> THEN m
        ELSE IF constraint_type = "exact"
        THEN AddCons(m, Lin(work_days_vars, Ones(n), "==", target_days))
        ELSE IF constraint_type = "max"
        THEN AddCons(m, Lin(work_days_vars, Ones(n), "<=", target_days))
        ELSE IF constraint_type = "min"
        THEN AddCons(m, Lin(work_days_vars, Ones(n), ">=", target_days))
        ELSE IF constraint_type = "soft_exact"
        THEN IF penalty_weight > 0
             THEN AddPenalty(SoftExactLinks(m1, over, under), aux, penalty_weight)
             ELSE m
        ELSE IF constraint_type = "soft_max"
        THEN IF penalty_weight > 0
             THEN AddPenalty(AddCons(m1, over), aux, penalty_weight)
             ELSE m
        ELSE IF constraint_type = "soft_min"
        THEN IF penalty_weight > 0
             THEN AddPenalty(AddCons(m1, under), aux, penalty_weight)
             ELSE m
        ELSE m

add_total_workdays_constraint(m, reg, df, ds, shifts, workdays_rules) ==
    LET work_shift_indices == WorkShiftIndices(shifts, WORKING_SHIFTS_FOR_DAILY_TOTAL)
        Step(acc, rule) == TotalWorkdaysRule(acc, reg, df, Len(ds), work_shift_indices, rule)
    IN  IF work_shift_indices = <<>> THEN m
        ELSE FoldSeq(Step, m, workdays_rules)

(***************************************************************************)
(* add_weekend_holiday_constraint.  The input is                           *)
(* [holidays_list, target_employee_ids, constraint_type, penalty_weight].  *)
(***************************************************************************)
\* the master-list indices of the listed ids the roster knows, in list order
KnownEmployeeIndices(employee_ids_master_list, target_employee_ids) ==
    Flatten([i \in 1..Len(target_employee_ids) |->
                IndexOf(employee_ids_master_list, target_employee_ids[i])])

WeekendHolidayCell(m, reg, target_s_idx, rule, e_idx, d_idx) ==
    LET constraint_type == Get(rule.constraint_type, "hard")
        penalty_weight == Get(rule.penalty_weight, 0)
    IN  IF constraint_type = "hard"
        THEN AddCons(m, Lin(<<reg[<<e_idx, d_idx, target_s_idx>>]>>, <<1>>, "==", 1))
        ELSE IF constraint_type = "soft" /\ penalty_weight > 0
        THEN LET m1 == NewIntVar(m, 0, 1)
                 request_violated_var == LastVar(m1)
                 m2 == AddCons(m1, ViolationLink(reg[<<e_idx, d_idx, target_s_idx>>],
                                                 request_violated_var))
             IN  AddPenalty(m2, request_violated_var, penalty_weight)
        ELSE m

is_sunday(date_obj) == weekday(date_obj) = 6

\* is_weekend = date_obj.weekday() >= 5
is_weekend(date_obj) == weekday(date_obj) >= 5

add_weekend_holiday_constraint(m, reg, employee_ids_master_list, ds, shifts, rule) ==
    LET target_employee_ids == Get(rule.target_employee_ids, <<>>)
        actual_target_e_indices ==
            IF target_employee_ids # <<>>
            THEN KnownEmployeeIndices(employee_ids_master_list, target_employee_ids)
            ELSE [i \in 1..Len(employee_ids_master_list) |-> i]
        target_s_idx == IndexOf(shifts, "rest")
        work == Flatten([d \in 1..Len(ds) |->
                    IF is_weekend(ds[d]) \/ InSeq(ds[d], rule.holidays_list)
                    THEN [i \in 1..Len(actual_target_e_indices) |-> <<d, actual_target_e_indices[i]>>]
                    ELSE <<>>])
        Step(acc, w) == WeekendHolidayCell(acc, reg, target_s_idx[1], rule, w[2], w[1])
    IN  IF actual_target_e_indices = <<>> THEN m
        ELSE IF target_s_idx = <<>> THEN m
        ELSE FoldSeq(Step, m, work)

(***************************************************************************)
(* The rule configurations the runs draw from, one list per compiler;      *)
(* "zzz" is a shift name, "A009" an employee id and "9F" a floor that the   *)
(* program does not have.                                                  *)
(***************************************************************************)
StaffRule(shift, target, ctype, under, over) ==
    [shift_name |-> shift, target |-> target, constraint_type |-> ctype,
     under_penalty_weight |-> under, over_penalty_weight |-> over]

StaffingInputs ==
    << <<[floor |-> "1F", rules |-> <<StaffRule("day", <<1>>, <<"hard">>, <<>>, <<>>)>>]>>,
       <<[floor |-> "9F", rules |-> <<StaffRule("day", <<1>>, <<"hard">>, <<>>, <<>>)>>],
         [floor |-> "2F", rules |-> <<StaffRule("day", <<0>>, <<"hard">>, <<>>, <<>>)>>],
         [floor |-> "1F", rules |-> <<StaffRule("zzz", <<1>>, <<"hard">>, <<>>, <<>>),
                                      StaffRule("day", <<>>, <<"hard">>, <<>>, <<>>),
                                      StaffRule("night", <<1>>, <<>>, <<>>, <<>>)>>]>>,
       <<[floor |-> "1F", rules |-> <<StaffRule("day", <<1>>, <<"soft">>, <<2>>, <<1>>)>>]>>,
       <<[floor |-> "1F", rules |-> <<StaffRule("night", <<2>>, <<"soft">>, <<1>>, <<>>),
                                      StaffRule("day", <<0>>, <<"soft">>, <<1>>, <<>>)>>]>>,
       <<[floor |-> "2F", rules |-> <<StaffRule("day", <<1>>, <<"hard">>, <<>>, <<>>)>>]>> >>

MinHolidaysRule(min_days, etype, ctype, under) ==
    [min_days |-> min_days, target_employment_type |-> etype, constraint_type |-> ctype,
     under_penalty_weight |-> under]

MinHolidaysInputs ==
    << MinHolidaysRule(<<2>>, <<"full">>, <<"hard">>, <<>>),
       MinHolidaysRule(<<1>>, <<"part">>, <<>>, <<>>),
       MinHolidaysRule(<<1>>, <<>>, <<"soft">>, <<2>>),
       MinHolidaysRule(<<>>, <<"full">>, <<"hard">>, <<>>) >>

MaxConsecutiveRule(max_days, work_shifts, ctype, over) ==
    [max_days |-> max_days, work_shifts |-> work_shifts, constraint_type |-> ctype,
     over_penalty_weight |-> over]

MaxConsecutiveInputs ==
    << MaxConsecutiveRule(<<1>>, << <<"day", "night">> >>, <<"hard">>, <<>>),
       MaxConsecutiveRule(<<2>>, << <<"day", "zzz">> >>, <<>>, <<>>),
       MaxConsecutiveRule(<<1>>, << <<"day", "night">> >>, <<"soft">>, <<2>>),
       MaxConsecutiveRule(<<0>>, << <<"day", "night">> >>, <<"hard">>, <<>>) >>

SequentialRule(prev, next, ctype, weight) ==
    [previous_shift_name |-> prev, next_shift_name |-> next, constraint_type |-> ctype,
     penalty_weight |-> weight]

SequentialInputs ==
    << SequentialRule(<<"night">>, <<"rest">>, <<"hard">>, <<>>),
       SequentialRule(<<"night">>, <<"rest">>, <<"soft">>, <<3>>),
       SequentialRule(<<"zzz">>, <<"rest">>, <<"hard">>, <<>>) >>

BalanceRule(etype, shift, ctype, weight, max_diff) ==
    [target_employment_type |-> etype, target_shift_name |-> shift, constraint_type |-> ctype,
     penalty_weight |-> weight, max_diff_allowed |-> max_diff]

BalanceInputs ==
    << BalanceRule(<<"full">>, <<"rest">>, <<>>, <<2>>, <<1>>),
       BalanceRule(<<"full">>, <<"night">>, <<"hard">>, <<>>, <<0>>),
       BalanceRule(<<>>, <<"night">>, <<"hard">>, <<>>, <<0>>),
       BalanceRule(<<"part">>, <<"night">>, <<"hard">>, <<>>, <<0>>) >>

RequestRule(emp, date_str, shift, ctype, weight) ==
    [employee_id |-> emp, date_str |-> date_str, requested_shift |-> shift,
     constraint_type |-> ctype, penalty_weight |-> weight]

ShiftRequestInputs ==
    << <<RequestRule(<<"A001">>, <<"2025-04-10">>, <<"rest">>, <<"hard">>, <<>>)>>,
       <<RequestRule(<<>>, <<"2025-04-10">>, <<"day">>, <<"hard">>, <<>>),
         RequestRule(<<"A009">>, <<"2025-04-10">>, <<"day">>, <<"hard">>, <<>>),
         RequestRule(<<"A001">>, <<"4/10">>, <<"day">>, <<"hard">>, <<>>),
         RequestRule(<<"A001">>, <<"2025-04-16">>, <<"day">>, <<"hard">>, <<>>),
         RequestRule(<<"A001">>, <<"2025-04-11">>, <<"night">>, <<"hard">>, <<>>),
         RequestRule(<<"A001">>, <<"2025-04-10">>, <<"zzz">>, <<"hard">>, <<>>),
         RequestRule(<<"A001">>, <<"2025-04-10">>, <<"day">>, <<>>, <<>>)>>,
       <<RequestRule(<<"A001">>, <<"2025-04-10">>, <<"day">>, <<"soft">>, <<3>>)>>,
       <<RequestRule(<<"A002">>, <<"2025-04-10">>, <<"day">>, <<"hard">>, <<>>)>> >>

AvoidRuleOf(pair, avoid_shifts, ctype) ==
    [employee_pair |-> pair, avoid_shifts |-> avoid_shifts, constraint_type |-> ctype]

AvoidInputs ==
    << <<AvoidRuleOf(<< <<"A001", "A002">> >>, << <<"day", "night">> >>, <<"hard">>)>>,
       <<AvoidRuleOf(<<>>, << <<"day">> >>, <<"hard">>),
         AvoidRuleOf(<< <<"A001", "A009">> >>, << <<"day">> >>, <<"hard">>),
         AvoidRuleOf(<< <<"A001", "A002">> >>, <<>>, <<"hard">>),
         AvoidRuleOf(<< <<"A001", "A002">> >>, << <<"night">> >>, <<>>),
         AvoidRuleOf(<< <<"A001", "A002">> >>, << <<"zzz">> >>, <<"hard">>)>>,
       <<AvoidRuleOf(<< <<"A001", "A002">> >>, << <<"zzz", "day">> >>, <<"hard">>)>> >>

WorkdaysRule(emp, ctype, days, weight) ==
    [employee_id |-> emp, constraint_type |-> ctype, days |-> days, penalty_weight |-> weight]

TotalWorkdaysInputs ==
    << <<WorkdaysRule(<<"A001">>, <<"exact">>, <<1>>, <<>>)>>,
       <<WorkdaysRule(<<"A001">>, <<"max">>, <<>>, <<>>),
         WorkdaysRule(<<"A009">>, <<"min">>, <<1>>, <<>>),
         WorkdaysRule(<<"A001">>, <<"max">>, <<1>>, <<>>),
         WorkdaysRule(<<"A002">>, <<"min">>, <<1>>, <<>>)>>,
       <<WorkdaysRule(<<"A001">>, <<"soft_exact">>, <<1>>, <<2>>)>>,
       <<WorkdaysRule(<<"A001">>, <<"soft_max">>, <<0>>, <<1>>),
         WorkdaysRule(<<"A001">>, <<"soft_min">>, <<5>>, <<1>>)>> >>

WeekendRule(holidays, targets, ctype, weight) ==
    [holidays_list |-> holidays, target_employee_ids |-> targets, constraint_type |-> ctype,
     penalty_weight |-> weight]

WeekendHolidayInputs ==
    << WeekendRule(<<>>, <<>>, <<>>, <<>>),
       WeekendRule(<<2>>, << <<"A009", "A001">> >>, <<"hard">>, <<>>),
       WeekendRule(<<2>>, <<>>, <<"soft">>, <<2>>),
       WeekendRule(<<2>>, << <<"A009">> >>, <<"hard">>, <<>>) >>

StatusRule(values, leave) == [status_values_for_full_leave |-> values, leave_shift_name |-> leave]

StatusInputs ==
    << StatusRule(<<"childcare", "sick">>, "rest"),
       StatusRule(<<"sick">>, "rest"),
       StatusRule(<<>>, "rest") >>

SeqToSet(s) == {s[i] : i \in 1..Len(s)}

(***************************************************************************)
(* main(): the pipeline.  pc names the next step.                          *)
(***************************************************************************)
NoTable == <<>>

\* last_call is the compiler call main made last, [family, input]; applied
\* lists the calls that changed the model or returned a penalty term.
NoCall == [family |-> "none", input |-> <<>>]

Init ==
    /\ pc = "load"
    /\ employee_info_df = <<>>
    /\ dates = <<>>
    /\ model = [doms |-> <<>>, cons |-> <<>>, objective |-> <<>>, minimize |-> FALSE]
    /\ variables = <<>>
    /\ all_penalty_terms = <<>>
    /\ last_call = NoCall
    /\ applied = <<>>
    /\ status = "NONE"
    /\ solver_values = <<>>
    /\ assigned_shifts_df = NoTable
    /\ csv_saved = FALSE

\* load_employee_data: the roster, or None when the file cannot be read
LoadEmployees ==
    /\ pc = "load"
    /\ \E loaded \in {<<>>} \cup {<<Roster(n)>> : n \in 1..MaxEmp} :
          IF loaded = <<>>
          THEN pc' = "done" /\ UNCHANGED employee_info_df
          ELSE pc' = "dates" /\ employee_info_df' = loaded[1]
    /\ UNCHANGED <<dates, model, variables, all_penalty_terms, last_call, applied, status,
                   solver_values, assigned_shifts_df, csv_saved>>

EndDateStrs == {Calendar[i] : i \in 1..(MaxDays + 1)} \cup {"2025/04/11"}

GenerateDateRange ==
    /\ pc = "dates"
    /\ \E end_date_str \in EndDateStrs :
          LET date_info == generate_date_range(START_DATE_STR, end_date_str)
          IN  IF date_info = <<>>
              THEN pc' = "done" /\ UNCHANGED dates
              ELSE /\ Len(employee_info_df) * Len(date_info[1]) <= MaxCells
                   /\ pc' = "build"
                   /\ dates' = date_info[1]
    /\ UNCHANGED <<employee_info_df, model, variables, all_penalty_terms, last_call, applied, status,
                   solver_values, assigned_shifts_df, csv_saved>>

BuildModel ==
    /\ pc = "build"
    /\ LET built == build_shift_assignment_model(employee_ids_of(employee_info_df), dates, SHIFTS)
       IN  model' = built.model /\ variables' = built.variables
    /\ pc' = "staffing"
    /\ UNCHANGED <<employee_info_df, dates, all_penalty_terms, last_call, applied, status,
                   solver_values, assigned_shifts_df, csv_saved>>

\* the model as a compiler receives it
Assembly == [doms |-> model.doms, cons |-> model.cons, pen |-> <<>>]

NumActive == Len(applied)

KeepLatestTerms(all_terms, returned_terms) == returned_terms

\* all_penalty_terms.extend(returned_terms)
ExtendPenaltyTerms(all_terms, returned_terms) == all_terms \o returned_terms

CompilerCallReturnOnSkip(here, next, input, out) ==
    /\ pc = here
    /\ (out # Assembly) => NumActive < MaxRules
    /\ model' = [model EXCEPT !.doms = out.doms, !.cons = out.cons]
    /\ all_penalty_terms' = ExtendPenaltyTerms(all_penalty_terms, out.pen)
    /\ last_call' = [family |-> here, input |-> input]
    /\ applied' = IF out # Assembly
                  THEN Append(applied, [family |-> here, input |-> input])
                  ELSE applied
    /\ pc' = IF out = Assembly THEN "done" ELSE next
    /\ UNCHANGED <<employee_info_df, dates, variables, status, solver_values,
                   assigned_shifts_df, csv_saved>>

\* One compiler call of main: the compiler extends the model and main
\* extends all_penalty_terms by the terms it returns.
CompilerCall(here, next, input, out) ==
    /\ pc = here
    /\ (out # Assembly) => NumActive < MaxRules
    /\ model' = [model EXCEPT !.doms = out.doms, !.cons = out.cons]
    /\ all_penalty_terms' = ExtendPenaltyTerms(all_penalty_terms, out.pen)
    /\ last_call' = [family |-> here, input |-> input]
    /\ applied' = IF out # Assembly
                  THEN Append(applied, [family |-> here, input |-> input])
                  ELSE applied
    /\ pc' = next
    /\ UNCHANGED <<employee_info_df, dates, variables, status, solver_values,
                   assigned_shifts_df, csv_saved>>

AddStaffing ==
    \E rules \in SeqToSet(StaffingInputs) \cup {<<>>} :
        CompilerCall("staffing", "min_holidays", rules,
            add_staffing_constraints(Assembly, variables, employee_info_df, dates, SHIFTS, rules))

AddMinHolidays ==
    \E rule \in SeqToSet(MinHolidaysInputs) :
        CompilerCall("min_holidays", "max_consecutive", rule,
            add_min_holidays_constraint(Assembly, variables, employee_info_df, dates, SHIFTS, rule))

AddMaxConsecutive ==
    \E rule \in SeqToSet(MaxConsecutiveInputs) :
        CompilerCall("max_consecutive", "sequential", rule,
            add_max_consecutive_workdays_constraint(
                Assembly, variables, employee_ids_of(employee_info_df), dates, SHIFTS, rule))

AddSequential ==
    \E rule \in SeqToSet(SequentialInputs) :
        CompilerCall("sequential", "balance_holidays", rule,
            add_sequential_shift_constraint(
                Assembly, variables, employee_ids_of(employee_info_df), dates, SHIFTS, rule))

AddBalanceHolidays ==
    \E rule \in SeqToSet(BalanceInputs) :
        CompilerCall("balance_holidays", "balance_night", rule,
            add_assignment_balance_constraint(
                Assembly, variables, employee_info_df, dates, SHIFTS, rule))

AddBalanceNight ==
    \E rule \in SeqToSet(BalanceInputs) :
        CompilerCall("balance_night", "shift_request", rule,
            add_assignment_balance_constraint(
                Assembly, variables, employee_info_df, dates, SHIFTS, rule))

AddShiftRequests ==
    \E requests \in SeqToSet(ShiftRequestInputs) \cup {<<>>} :
        CompilerCall("shift_request", "avoid", requests,
            add_shift_request_constraint(
                Assembly, variables, employee_info_df, dates, SHIFTS, requests))

AddAvoidSameShift ==
    \E rules \in SeqToSet(AvoidInputs) \cup {<<>>} :
        CompilerCall("avoid", "total_workdays", rules,
            add_avoid_same_shift_constraint(
                Assembly, variables, employee_info_df, dates, SHIFTS, rules))

AddTotalWorkdays ==
    \E rules \in SeqToSet(TotalWorkdaysInputs) \cup {<<>>} :
        CompilerCall("total_workdays", "weekend_holiday", rules,
            add_total_workdays_constraint(
                Assembly, variables, employee_info_df, dates, SHIFTS, rules))

AddWeekendHoliday ==
    \E rule \in SeqToSet(WeekendHolidayInputs) :
        CompilerCall("weekend_holiday", "status", rule,
            add_weekend_holiday_constraint(
                Assembly, variables, employee_ids_of(employee_info_df), dates, SHIFTS, rule))

AddEmployeeStatus ==
    \E rule \in SeqToSet(StatusInputs) :
        CompilerCall("status", "objective", rule,
            add_employee_status_constraint(
                Assembly, variables, employee_info_df, dates, SHIFTS, rule))

AlwaysMinimize(terms) == TRUE

\* main, "if all_penalty_terms:"
HasPenaltyTerms(terms) == terms # <<>>

\* main, "if all_penalty_terms: model.Minimize(sum(all_penalty_terms))"
SetObjective ==
    /\ pc = "objective"
    /\ model' = IF HasPenaltyTerms(all_penalty_terms)
                THEN [model EXCEPT !.objective = all_penalty_terms, !.minimize = TRUE]
                ELSE model
    /\ pc' = "solve"
    /\ last_call' = NoCall
    /\ UNCHANGED <<employee_info_df, dates, variables, all_penalty_terms, applied, status,
                   solver_values, assigned_shifts_df, csv_saved>>

SolveAndGetResults ==
    /\ pc = "solve"
    /\ \E outcome \in SolveOutcomes(model) :
          /\ status' = outcome[1]
          /\ solver_values' = outcome[2]
          /\ assigned_shifts_df' =
                DecodeResults(outcome[1], outcome[2], variables,
                              employee_ids_of(employee_info_df), dates, SHIFTS)
    /\ pc' = "save"
    /\ UNCHANGED <<employee_info_df, dates, model, variables, all_penalty_terms, last_call, applied,
                   csv_saved>>

SaveAlways(df) == TRUE

\* main, "if assigned_shifts_df is not None:"
IsNotNone(df) == df # NoTable

\* main, "if assigned_shifts_df is not None: save_results_to_csv(...)"
SaveResults ==
    /\ pc = "save"
    /\ csv_saved' = IsNotNone(assigned_shifts_df)
    /\ pc' = "done"
    /\ UNCHANGED <<employee_info_df, dates, model, variables, all_penalty_terms, last_call, applied,
                   status, solver_values, assigned_shifts_df>>

Next ==
    \/ LoadEmployees
    \/ GenerateDateRange
    \/ BuildModel
    \/ AddStaffing
    \/ AddMinHolidays
    \/ AddMaxConsecutive
    \/ AddSequential
    \/ AddBalanceHolidays
    \/ AddBalanceNight
    \/ AddShiftRequests
    \/ AddAvoidSameShift
    \/ AddTotalWorkdays
    \/ AddWeekendHoliday
    \/ AddEmployeeStatus
    \/ SetObjective
    \/ SolveAndGetResults
    \/ SaveResults

Spec == Init /\ [][Next]_vars

(***************************************************************************)
(* A solver that may also stop without a decision (a search limit, an      *)
(* interrupt): Solve returns UNKNOWN, which the decoder's last branch      *)
(* handles.                                                                *)
(***************************************************************************)
SolveStopped ==
    /\ pc = "solve"
    /\ status' = "UNKNOWN"
    /\ solver_values' = <<>>
    /\ assigned_shifts_df' =
          DecodeResults("UNKNOWN", <<>>, variables, employee_ids_of(employee_info_df),
                        dates, SHIFTS)
    /\ pc' = "save"
    /\ UNCHANGED <<employee_info_df, dates, model, variables, all_penalty_terms, last_call,
                   applied, csv_saved>>

NextAnySolver == Next \/ SolveStopped

SpecAnySolver == Init /\ [][NextAnySolver]_vars

(***************************************************************************)
(* Properties of the run.                                                  *)
(***************************************************************************)
\* the solve ended with a Solution table
Accepted == pc \in {"save", "done"} /\ status \in {"OPTIMAL", "FEASIBLE"}

NumEmployees == Len(employee_info_df)
NumDays == Len(dates)
ShiftNames == SeqToSet(SHIFTS)

\* the cell of the Solution table for employee index e and date index d
Cell(e, d) == assigned_shifts_df[1][<<employee_info_df[e].id, strftime(dates[d])>>]

\* the shift indices whose variable the solver set true in slot (e, d)
TrueShifts(e, d) == {s \in 1..Len(SHIFTS) : solver_values[variables[<<e, d, s>>]] = 1}

\* the inputs of the calls of a compiler that changed the model
AppliedInputs(family) ==
    {applied[i].input : i \in {j \in 1..Len(applied) : applied[j].family = family}}

\* C1: whenever the solve ends Optimal or Feasible, every (employee, date)
\* pair has exactly one true shift variable and the table cell of the pair
\* holds the name of that shift, whatever rules were compiled.
C1_Coverage ==
    Accepted =>
        \A e \in 1..NumEmployees : \A d \in 1..NumDays :
            /\ Cardinality(TrueShifts(e, d)) = 1
            /\ Cell(e, d) \in ShiftNames
            /\ \A s \in TrueShifts(e, d) : Cell(e, d) = SHIFTS[s]

C1_Witness ==
    /\ Accepted /\ pc = "done" /\ Len(applied) = 2
    /\ NumEmployees = 2 /\ NumDays = 2
    /\ Cell(1, 1) = "night" /\ Cell(2, 2) = "day"

\* the staffing rules of an input that are compiled as hard constraints:
\* <<floor, shift name, target>> with a non-empty cohort, a known shift, a
\* target, and the hard (default) mode
HardStaffingRules(staffing_rules) ==
    {<<staffing_rules[f].floor, staffing_rules[f].rules[r].shift_name,
       staffing_rules[f].rules[r].target[1]>> :
        <<f, r>> \in {fr \in (1..Len(staffing_rules)) \X (1..3) :
            /\ fr[2] <= Len(staffing_rules[fr[1]].rules)
            /\ staffing_rules[fr[1]].rules[fr[2]].target # <<>>
            /\ Get(staffing_rules[fr[1]].rules[fr[2]].constraint_type, "hard") = "hard"
            /\ staffing_rules[fr[1]].rules[fr[2]].shift_name \in ShiftNames
            /\ \E e \in 1..NumEmployees :
                  employee_info_df[e].floor = staffing_rules[fr[1]].floor}}

\* C2: under a hard staffing rule with target T for a floor with at least
\* one employee and a known shift, every accepted Solution assigns that
\* shift, on every date, to exactly T employees of the floor.
C2_HardStaffing ==
    Accepted =>
        \A staffing_rules \in AppliedInputs("staffing") :
            \A h \in HardStaffingRules(staffing_rules) :
                \A d \in 1..NumDays :
                    Cardinality({e \in 1..NumEmployees :
                                    /\ employee_info_df[e].floor = h[1]
                                    /\ Cell(e, d) = h[2]}) = h[3]

C2_Witness ==
    /\ Accepted /\ NumEmployees = 2 /\ NumDays = 2
    /\ StaffingInputs[1] \in AppliedInputs("staffing")
    /\ Cell(1, 1) = "day" /\ Cell(2, 1) # "day"
    /\ Cell(2, 2) = "day" /\ Cell(1, 2) # "day"

\* C3: after the max-consecutive rule is compiled in hard mode with K >= 1
\* and at least one known working shift, no accepted Solution gives any
\* employee K + 1 consecutive dates that all hold a working shift.
C3_MaxConsecutive ==
    Accepted =>
        \A rule \in AppliedInputs("max_consecutive") :
            (/\ Get(rule.constraint_type, "hard") = "hard"
             /\ rule.max_days # <<>> /\ rule.max_days[1] >= 1) =>
                LET K == rule.max_days[1]
                    work == SeqToSet(Get(rule.work_shifts, <<>>)) \cap ShiftNames
                IN  \A e \in 1..NumEmployees : \A d \in 1..(NumDays - K) :
                        ~(\A k \in 0..K : Cell(e, d + k) \in work)

C3_Witness ==
    /\ Accepted /\ NumEmployees = 1 /\ NumDays = 3
    /\ MaxConsecutiveInputs[1] \in AppliedInputs("max_consecutive")
    /\ Cell(1, 1) = "day" /\ Cell(1, 2) = "rest" /\ Cell(1, 3) = "night"

\* the calls that added a penalty term all come before the status call
SoftRuleApplied == all_penalty_terms # <<>>

\* C4: after the status rule is compiled, every employee whose status is in
\* the forced-leave set holds the leave shift on every date of every
\* accepted Solution, whatever soft rules were compiled too.
C4_ForcedLeave ==
    Accepted =>
        \A rule \in AppliedInputs("status") :
            \A e \in 1..NumEmployees :
                StatusOnLeave(employee_info_df[e], rule.status_values_for_full_leave) =>
                    \A d \in 1..NumDays : Cell(e, d) = rule.leave_shift_name

C4_Witness ==
    /\ Accepted /\ SoftRuleApplied /\ NumEmployees = 2 /\ NumDays = 2
    /\ StatusInputs[1] \in AppliedInputs("status")
    /\ StaffingInputs[4] \in AppliedInputs("staffing")
    /\ Cell(2, 1) = "rest" /\ Cell(2, 2) = "rest" /\ Cell(1, 1) = "night"

\* the requests of a list that are compiled as hard constraints:
\* <<employee index, date index, shift index>>
HardRequests(shift_requests) ==
    {<<IndexOf(employee_ids_of(employee_info_df), shift_requests[i].employee_id[1])[1],
       IndexOf(dates, strptime(shift_requests[i].date_str[1])[1])[1],
       IndexOf(SHIFTS, shift_requests[i].requested_shift[1])[1]>> :
        i \in {j \in 1..Len(shift_requests) :
            /\ shift_requests[j].employee_id # <<>>
            /\ shift_requests[j].date_str # <<>>
            /\ shift_requests[j].requested_shift # <<>>
            /\ shift_requests[j].constraint_type = <<"hard">>
            /\ \E e \in 1..NumEmployees :
                  employee_info_df[e].id = shift_requests[j].employee_id[1]
            /\ \E d \in 1..NumDays : strftime(dates[d]) = shift_requests[j].date_str[1]
            /\ shift_requests[j].requested_shift[1] \in ShiftNames}}

\* C5: for a hard request that names a known employee, a date of the
\* horizon and a known shift, every accepted Solution shows the requested
\* shift in that cell and every other shift variable of the slot is false.
C5_HardRequest ==
    Accepted =>
        \A shift_requests \in AppliedInputs("shift_request") :
            \A h \in HardRequests(shift_requests) :
                /\ Cell(h[1], h[2]) = SHIFTS[h[3]]
                /\ \A s \in 1..Len(SHIFTS) :
                      s # h[3] => solver_values[variables[<<h[1], h[2], s>>]] = 0

C5_Witness ==
    /\ Accepted /\ NumEmployees = 2 /\ NumDays = 2
    /\ ShiftRequestInputs[2] \in AppliedInputs("shift_request")
    /\ Cell(1, 2) = "night" /\ Cell(1, 1) = "day" /\ Cell(2, 2) = "night"

\* every table that gives each slot one shift index, and its valuation of
\* the decision variables
Slots == (1..NumEmployees) \X (1..NumDays)
AllAssignments == [Slots -> 1..Len(SHIFTS)]
OneHot(a) ==
    [i \in 1..(NumEmployees * NumDays * Len(SHIFTS)) |->
        LET e == ((i - 1) \div (NumDays * Len(SHIFTS))) + 1
            d == (((i - 1) \div Len(SHIFTS)) % NumDays) + 1
            s == ((i - 1) % Len(SHIFTS)) + 1
        IN  IF a[<<e, d>>] = s THEN 1 ELSE 0]

\* the rules of a list that are compiled as hard pair constraints:
\* <<employee index, employee index, the listed shift names the list knows>>
HardAvoidPairs(avoid_rules) ==
    {<<IndexOf(employee_ids_of(employee_info_df), avoid_rules[i].employee_pair[1][1])[1],
       IndexOf(employee_ids_of(employee_info_df), avoid_rules[i].employee_pair[1][2])[1],
       SeqToSet(avoid_rules[i].avoid_shifts[1]) \cap ShiftNames>> :
        i \in {j \in 1..Len(avoid_rules) :
            /\ avoid_rules[j].employee_pair # <<>>
            /\ avoid_rules[j].avoid_shifts # <<>>
            /\ Get(avoid_rules[j].constraint_type, "hard") = "hard"
            /\ \A k \in 1..2 : \E e \in 1..NumEmployees :
                  employee_info_df[e].id = avoid_rules[j].employee_pair[1][k]}}

\* no date gives both employees of a pair the same disallowed shift
NoSharedAvoidedShift(a, pairs) ==
    \A h \in pairs : \A d \in 1..NumDays :
        ~(a[<<h[1], d>>] = a[<<h[2], d>>] /\ SHIFTS[a[<<h[1], d>>]] \in h[3])

\* C6: under a hard avoid rule for two known employees and known shifts, no
\* accepted Solution has a date on which both hold the same disallowed
\* shift; with only that rule compiled, every other one-shift-per-slot
\* table (a shared non-listed shift, different listed shifts) stays a
\* solution.
C6_AvoidSameShift ==
    /\ Accepted =>
          \A avoid_rules \in AppliedInputs("avoid") :
              \A h \in HardAvoidPairs(avoid_rules) : \A d \in 1..NumDays :
                  ~(Cell(h[1], d) = Cell(h[2], d) /\ Cell(h[1], d) \in h[3])
    /\ (pc = "solve" /\ Len(applied) = 1 /\ applied[1].family = "avoid") =>
          LET feasible == Solutions(model)
              pairs == HardAvoidPairs(applied[1].input)
          IN  \A a \in AllAssignments :
                  NoSharedAvoidedShift(a, pairs) => OneHot(a) \in feasible

C6_Witness ==
    /\ Accepted /\ NumEmployees = 2 /\ NumDays = 2
    /\ applied = <<[family |-> "avoid", input |-> AvoidInputs[1]]>>
    /\ Cell(1, 1) = "rest" /\ Cell(2, 1) = "rest"
    /\ Cell(1, 2) = "day" /\ Cell(2, 2) = "night"

\* the number of dates on which employee e holds the rest shift
RestDays(e) == Cardinality({d \in 1..NumDays : Cell(e, d) = "rest"})

MinHolidaysIsHard(rule) ==
    rule.min_days # <<>> /\ Get(rule.constraint_type, "hard") = "hard"

\* C7: under the hard min-holidays rule with minimum M, every accepted
\* Solution gives each employee of the targeted employment type at least M
\* rest dates; a run with only that rule compiled and M above the number of
\* dates ends Infeasible.
C7_MinHolidays ==
    /\ Accepted =>
          \A rule \in AppliedInputs("min_holidays") :
              MinHolidaysIsHard(rule) =>
                  \A e \in 1..NumEmployees :
                      employee_info_df[e].etype = Get(rule.target_employment_type, "full")
                          => RestDays(e) >= rule.min_days[1]
    /\ (/\ pc \in {"save", "done"} /\ status # "NONE"
        /\ Len(applied) = 1 /\ applied[1].family = "min_holidays"
        /\ MinHolidaysIsHard(applied[1].input)
        /\ applied[1].input.min_days[1] > NumDays) => status = "INFEASIBLE"

C7_Witness ==
    /\ Accepted /\ NumEmployees = 1 /\ NumDays = 3
    /\ MinHolidaysInputs[1] \in AppliedInputs("min_holidays")
    /\ Cell(1, 1) = "rest" /\ Cell(1, 2) = "night" /\ Cell(1, 3) = "rest"

\* C8: when no compiler added anything, the solve ends Optimal or Feasible
\* with a Solution table, the feasible set is exactly the tables with one
\* shift per employee and date, and no objective is set.
C8_EmptyRules ==
    /\ (pc = "solve" /\ applied = <<>>) =>
          /\ Solutions(model) = {OneHot(a) : a \in AllAssignments}
          /\ ~model.minimize /\ model.objective = <<>>
    /\ (pc \in {"save", "done"} /\ status # "NONE" /\ applied = <<>>) =>
          /\ status \in {"OPTIMAL", "FEASIBLE"}
          /\ assigned_shifts_df # NoTable
          /\ ~model.minimize /\ model.objective = <<>>

C8_Witness ==
    /\ pc = "done" /\ applied = <<>> /\ status = "OPTIMAL" /\ csv_saved
    /\ NumEmployees = 2 /\ NumDays = 2
    /\ Cell(1, 1) = "night" /\ Cell(1, 2) = "night" /\ Cell(2, 1) = "day"

\* the solve step has returned
Solved == status # "NONE"

\* C9: a Solution table exists exactly when the status is Optimal or
\* Feasible; for Infeasible, InvalidModel and Unknown there is no table and
\* the CSV writer is not invoked; after the solve nothing is relaxed or
\* retried: the model and the status stay as they are.
C9_SolutionIffAccepted ==
    /\ [](Solved =>
            /\ (assigned_shifts_df # NoTable) <=> (status \in {"OPTIMAL", "FEASIBLE"})
            /\ csv_saved => status \in {"OPTIMAL", "FEASIBLE"}
            /\ (pc = "done") => (csv_saved <=> status \in {"OPTIMAL", "FEASIBLE"}))
    /\ [][Solved => /\ model' = model /\ status' = status /\ applied' = applied
                    /\ all_penalty_terms' = all_penalty_terms
                    /\ assigned_shifts_df' = assigned_shifts_df]_vars

C9_Witness ==
    /\ pc = "done" /\ status = "INFEASIBLE" /\ ~csv_saved /\ assigned_shifts_df = NoTable
    /\ Len(applied) = 2 /\ applied[1].family = "staffing" /\ applied[2].family = "shift_request"

(***************************************************************************)
(* Skip and continue.  A rule instance is in error when a required field   *)
(* is missing or it refers to an employee, shift, floor or date that the   *)
(* run does not have.  WholeInstance = TRUE reads an unknown name inside a *)
(* list-valued field (work_shifts, avoid_shifts, target_employee_ids) as   *)
(* an error of the instance; WholeInstance = FALSE reads it as an error of *)
(* that name only, the instance being in error when no listed name is      *)
(* known.                                                                  *)
(***************************************************************************)
KnownEmployee(id) == \E e \in 1..NumEmployees : employee_info_df[e].id = id
KnownShift(name) == name \in ShiftNames
InHorizon(date_str) == \E d \in 1..NumDays : strftime(dates[d]) = date_str
KnownShiftsOf(names) == SelectSeq(names, KnownShift)
KnownEmployeesOf(ids) == SelectSeq(ids, KnownEmployee)

\* a list-valued field is usable
ListUsable(names, known, WholeInstance) ==
    /\ names # <<>>
    /\ known # <<>>
    /\ WholeInstance => known = names

ValidStaffingRule(rule) == rule.target # <<>> /\ KnownShift(rule.shift_name)
FloorHasCohort(floor_rules) ==
    \E e \in 1..NumEmployees : employee_info_df[e].floor = floor_rules.floor
ValidStaffing(staffing_rules) ==
    LET floors == SelectSeq(staffing_rules, FloorHasCohort)
    IN  [i \in 1..Len(floors) |->
            [floor |-> floors[i].floor, rules |-> SelectSeq(floors[i].rules, ValidStaffingRule)]]

ValidRequest(r) ==
    /\ r.employee_id # <<>> /\ r.date_str # <<>> /\ r.requested_shift # <<>>
    /\ KnownEmployee(r.employee_id[1])
    /\ InHorizon(r.date_str[1])
    /\ KnownShift(r.requested_shift[1])

ValidAvoid(r, WholeInstance) ==
    /\ r.employee_pair # <<>> /\ r.avoid_shifts # <<>>
    /\ Len(r.employee_pair[1]) = 2
    /\ KnownEmployee(r.employee_pair[1][1]) /\ KnownEmployee(r.employee_pair[1][2])
    /\ ListUsable(r.avoid_shifts[1], KnownShiftsOf(r.avoid_shifts[1]), WholeInstance)
ValidAvoids(avoid_rules, WholeInstance) ==
    LET kept == SelectSeq(avoid_rules, LAMBDA r : ValidAvoid(r, WholeInstance))
    IN  [i \in 1..Len(kept) |->
            [kept[i] EXCEPT !.avoid_shifts = <<KnownShiftsOf(kept[i].avoid_shifts[1])>>]]

ValidWorkdays(r) ==
    /\ r.employee_id # <<>> /\ r.constraint_type # <<>> /\ r.days # <<>>
    /\ KnownEmployee(r.employee_id[1])

ValidMinHolidays(rule) == rule.min_days # <<>>

ValidMaxConsecutive(rule, WholeInstance) ==
    /\ rule.max_days # <<>> /\ rule.work_shifts # <<>>
    /\ rule.max_days[1] > 0
    /\ ListUsable(rule.work_shifts[1], KnownShiftsOf(rule.work_shifts[1]), WholeInstance)

ValidSequential(rule) ==
    /\ rule.previous_shift_name # <<>> /\ rule.next_shift_name # <<>>
    /\ KnownShift(rule.previous_shift_name[1]) /\ KnownShift(rule.next_shift_name[1])

ValidBalance(rule) ==
    /\ rule.target_employment_type # <<>> /\ rule.target_shift_name # <<>>
    /\ KnownShift(rule.target_shift_name[1])
    /\ rule.constraint_type = <<"hard">> => rule.max_diff_allowed # <<>>

ValidWeekend(rule, WholeInstance) ==
    rule.target_employee_ids # <<>> =>
        ListUsable(rule.target_employee_ids[1], KnownEmployeesOf(rule.target_employee_ids[1]),
                   WholeInstance)

\* the model and penalty terms the call of a compiler must leave: those of
\* the input without its instances in error
Expected(family, input, WholeInstance) ==
    LET df == employee_info_df
        ids == employee_ids_of(employee_info_df)
        m == Assembly
    IN  CASE family = "staffing" ->
                add_staffing_constraints(m, variables, df, dates, SHIFTS, ValidStaffing(input))
          [] family = "min_holidays" ->
                IF ValidMinHolidays(input)
                THEN add_min_holidays_constraint(m, variables, df, dates, SHIFTS, input)
                ELSE m
          [] family = "max_consecutive" ->
                IF ValidMaxConsecutive(input, WholeInstance)
                THEN add_max_consecutive_workdays_constraint(m, variables, ids, dates, SHIFTS,
                        [input EXCEPT !.work_shifts = <<KnownShiftsOf(input.work_shifts[1])>>])
                ELSE m
          [] family = "sequential" ->
                IF ValidSequential(input)
                THEN add_sequential_shift_constraint(m, variables, ids, dates, SHIFTS, input)
                ELSE m
          [] family \in {"balance_holidays", "balance_night"} ->
                IF ValidBalance(input)
                THEN add_assignment_balance_constraint(m, variables, df, dates, SHIFTS, input)
                ELSE m
          [] family = "shift_request" ->
                add_shift_request_constraint(m, variables, df, dates, SHIFTS,
                                             SelectSeq(input, ValidRequest))
          [] family = "avoid" ->
                add_avoid_same_shift_constraint(m, variables, df, dates, SHIFTS,
                                                ValidAvoids(input, WholeInstance))
          [] family = "total_workdays" ->
                add_total_workdays_constraint(m, variables, df, dates, SHIFTS,
                                              SelectSeq(input, ValidWorkdays))
          [] family = "weekend_holiday" ->
                IF ValidWeekend(input, WholeInstance)
                THEN add_weekend_holiday_constraint(m, variables, ids, dates, SHIFTS,
                        IF input.target_employee_ids = <<>> THEN input
                        ELSE [input EXCEPT !.target_employee_ids =
                                 <<KnownEmployeesOf(input.target_employee_ids[1])>>])
                ELSE m
          [] family = "status" ->
                add_employee_status_constraint(m, variables, df, dates, SHIFTS, input)

\* main's order of the compiler calls
PipelineOrder ==
    <<"staffing", "min_holidays", "max_consecutive", "sequential", "balance_holidays",
      "balance_night", "shift_request", "avoid", "total_workdays", "weekend_holiday", "status",
      "objective">>

\* a compiler call leaves what its input without the instances in error
\* gives, and main goes on to the next compiler
SkipAndContinueStep(WholeInstance) ==
    (pc \in SeqToSet(PipelineOrder) \ {"objective"} /\ pc' # pc) =>
        LET out == Expected(pc, last_call'.input, WholeInstance)
        IN  /\ model'.doms = out.doms
            /\ model'.cons = out.cons
            /\ all_penalty_terms' = all_penalty_terms \o out.pen
            /\ pc' = PipelineOrder[IndexOf(PipelineOrder, pc)[1] + 1]

\* C10 as stated: a rule instance with a configuration error (missing
\* required field, unknown employee id, unknown shift name, unknown or
\* empty floor cohort, date outside the horizon, max_days <= 0) adds
\* nothing, and every other instance and every later compiler is applied
\* as if it were absent.  An unknown name in a list-valued field counts as
\* an error of the whole instance.
C10_WholeInstanceSkipped == [][SkipAndContinueStep(TRUE)]_vars

\* C10: a rule instance with a configuration error adds no constraint, no
\* auxiliary variable and no penalty term, and every other instance of the
\* list and every later compiler is applied as if it were absent; an
\* unknown name inside a list-valued field (work_shifts, avoid_shifts,
\* target_employee_ids) removes only that name, and the instance is skipped
\* only when none of its listed names is known.
C10_SkipAndContinue == [][SkipAndContinueStep(FALSE)]_vars

C10_Witness ==
    /\ pc = "total_workdays" /\ NumEmployees = 2 /\ NumDays = 2
    /\ last_call = [family |-> "avoid", input |-> AvoidInputs[3]]
    /\ applied = <<[family |-> "shift_request", input |-> ShiftRequestInputs[2]], last_call>>
    /\ Len(model.cons) = NumEmployees * NumDays + 1 + NumDays

(***************************************************************************)
(* The compilers taken on their own.                                       *)
(***************************************************************************)
\* the compiler main calls at pipeline step `family`, on assembly m
Compile(m, family, input) ==
    LET df == employee_info_df
        ids == employee_ids_of(employee_info_df)
    IN  CASE family = "staffing" ->
                add_staffing_constraints(m, variables, df, dates, SHIFTS, input)
          [] family = "min_holidays" ->
                add_min_holidays_constraint(m, variables, df, dates, SHIFTS, input)
          [] family = "max_consecutive" ->
                add_max_consecutive_workdays_constraint(m, variables, ids, dates, SHIFTS, input)
          [] family = "sequential" ->
                add_sequential_shift_constraint(m, variables, ids, dates, SHIFTS, input)
          [] family \in {"balance_holidays", "balance_night"} ->
                add_assignment_balance_constraint(m, variables, df, dates, SHIFTS, input)
          [] family = "shift_request" ->
                add_shift_request_constraint(m, variables, df, dates, SHIFTS, input)
          [] family = "avoid" ->
                add_avoid_same_shift_constraint(m, variables, df, dates, SHIFTS, input)
          [] family = "total_workdays" ->
                add_total_workdays_constraint(m, variables, df, dates, SHIFTS, input)
          [] family = "weekend_holiday" ->
                add_weekend_holiday_constraint(m, variables, ids, dates, SHIFTS, input)
          [] family = "status" ->
                add_employee_status_constraint(m, variables, df, dates, SHIFTS, input)

\* the model as build_shift_assignment_model leaves it
BaseAssembly ==
    LET built == build_shift_assignment_model(employee_ids_of(employee_info_df), dates, SHIFTS)
    IN  [doms |-> built.model.doms, cons |-> built.model.cons, pen |-> <<>>]

\* the constraints a compiler adds to the bare model
StandaloneCons(family, input) ==
    LET out == Compile(BaseAssembly, family, input)
    IN  SubSeq(out.cons, Len(BaseAssembly.cons) + 1, Len(out.cons))

\* the call adds constraints only, no auxiliary variable
AddsNoVariable(family, input) ==
    Len(Compile(BaseAssembly, family, input).doms) = Len(BaseAssembly.doms)

\* employee e is on forced leave under a compiled status rule
OnLeave(e) ==
    \E rule \in AppliedInputs("status") :
        StatusOnLeave(employee_info_df[e], rule.status_values_for_full_leave)

\* a compiled hard request asks a working shift of an employee on leave
LeaveRequestConflict ==
    \E shift_requests \in AppliedInputs("shift_request") :
        \E h \in HardRequests(shift_requests) : OnLeave(h[1]) /\ SHIFTS[h[3]] # "rest"

\* a compiled hard staffing rule wants a working shift staffed from a floor
\* whose employees are all on leave
LeaveStaffingConflict ==
    \E staffing_rules \in AppliedInputs("staffing") :
        \E h \in HardStaffingRules(staffing_rules) :
            /\ h[3] >= 1 /\ h[2] # "rest"
            /\ \A e \in 1..NumEmployees : employee_info_df[e].floor = h[1] => OnLeave(e)

\* C11: conflicting hard constraints of different rule families are not
\* rejected or reconciled during assembly: a compiler call that adds only
\* constraints adds exactly the constraints it adds to the bare model,
\* whatever the model already holds; a forced-leave employee with a hard
\* request for a working shift, or alone on a floor with a hard staffing
\* target, ends the run Infeasible with no Solution.
C11_ConflictsSurfaceAtSolve ==
    /\ [][(pc \in SeqToSet(PipelineOrder) \ {"objective"} /\ pc' # pc
           /\ AddsNoVariable(pc, last_call'.input)) =>
              model'.cons = model.cons \o StandaloneCons(pc, last_call'.input)]_vars
    /\ []((Solved /\ ~ModelInvalid(model) /\ (LeaveRequestConflict \/ LeaveStaffingConflict)) =>
              /\ status = "INFEASIBLE"
              /\ assigned_shifts_df = NoTable
              /\ ~csv_saved)

C11_Witness ==
    /\ pc = "done" /\ status = "INFEASIBLE" /\ NumEmployees = 2 /\ NumDays = 2
    /\ applied = <<[family |-> "shift_request", input |-> ShiftRequestInputs[4]],
                   [family |-> "status", input |-> StatusInputs[1]]>>
    /\ Len(model.cons) = NumEmployees * NumDays + 1 + NumDays
    /\ LeaveRequestConflict

(***************************************************************************)
(* The compiler calls of the run, replayed: what each call that changed    *)
(* the model added.                                                        *)
(***************************************************************************)
RECURSIVE CallOutput(_)
\* the assembly the k-th call of `applied` returns, with its own penalty
\* terms
CallOutput(k) ==
    LET before == IF k = 1 THEN BaseAssembly ELSE [CallOutput(k - 1) EXCEPT !.pen = <<>>]
    IN  Compile(before, applied[k].family, applied[k].input)

CallPenalties(k) == CallOutput(k).pen

\* the auxiliary variables of the k-th call
CallVariables(k) ==
    ((IF k = 1 THEN Len(BaseAssembly.doms) ELSE Len(CallOutput(k - 1).doms)) + 1)
        ..Len(CallOutput(k).doms)

\* what the k-th call contributes to the objective under the solved values
CallContribution(k) == ObjectiveValue(CallPenalties(k), solver_values)

AppliedCalls(families) == {k \in 1..Len(applied) : applied[k].family \in families}

\* the number of dates on which employee e holds the shift
ShiftCount(e, shift_name) == Cardinality({d \in 1..NumDays : Cell(e, d) = shift_name})

\* max minus min of the per-employee counts of the shift over the cohort
Spread(etype, shift_name) ==
    LET counts == {ShiftCount(e, shift_name) :
                      e \in {i \in 1..NumEmployees : employee_info_df[i].etype = etype}}
    IN  SetMax(counts) - SetMin(counts)

BalanceIsSoft(rule) ==
    Get(rule.constraint_type, "soft") = "soft" /\ Get(rule.penalty_weight, 0) > 0

\* C12: a compiled soft balance rule with weight W > 0 contributes to the
\* objective W times (max - min) of the cohort's per-employee counts of the
\* target shift, in every accepted Solution: 0 for spread 0, and more for
\* every larger spread.
C12_SoftBalance ==
    Accepted =>
        \A k \in AppliedCalls({"balance_holidays", "balance_night"}) :
            BalanceIsSoft(applied[k].input) =>
                /\ Len(CallPenalties(k)) = 1
                /\ \E i \in 1..Len(model.objective) : model.objective[i] = CallPenalties(k)[1]
                /\ CallContribution(k) =
                      applied[k].input.penalty_weight[1]
                        * Spread(applied[k].input.target_employment_type[1],
                                 applied[k].input.target_shift_name[1])

C12_Witness ==
    /\ Accepted /\ NumEmployees = 2 /\ NumDays = 2
    /\ \E k \in AppliedCalls({"balance_holidays"}) :
          applied[k].input = BalanceInputs[1] /\ CallContribution(k) = 4
    /\ Cell(1, 1) = "rest" /\ Cell(1, 2) = "rest"
    /\ Cell(2, 1) = "day" /\ Cell(2, 2) = "night"

(***************************************************************************)
(* The decoding of solve_and_get_results as a function of the solved       *)
(* values: the values are any 0/1 valuation of the decision variables, and *)
(* the decoding loop runs twice on them.                                   *)
(***************************************************************************)
InitDecode ==
    \E n \in 1..MaxEmp : \E end_date_str \in EndDateStrs :
        LET date_info == generate_date_range(START_DATE_STR, end_date_str)
            horizon == IF date_info = <<>> THEN <<>> ELSE date_info[1]
            built == build_shift_assignment_model(employee_ids_of(Roster(n)), horizon, SHIFTS)
        IN  /\ horizon # <<>>
            /\ n * Len(horizon) <= MaxDecodeCells
            /\ pc = "decode"
            /\ employee_info_df = Roster(n)
            /\ dates = horizon
            /\ model = built.model
            /\ variables = built.variables
            /\ all_penalty_terms = <<>>
            /\ last_call = NoCall
            /\ applied = <<>>
            /\ status \in {"OPTIMAL", "FEASIBLE"}
            /\ solver_values \in [1..Len(built.model.doms) -> {0, 1}]
            /\ assigned_shifts_df = NoTable
            /\ csv_saved = FALSE

DecodeSolved ==
    /\ pc = "decode"
    /\ assigned_shifts_df' =
          DecodeResults(status, solver_values, variables, employee_ids_of(employee_info_df),
                        dates, SHIFTS)
    /\ pc' = "decode_again"
    /\ UNCHANGED <<employee_info_df, dates, model, variables, all_penalty_terms, last_call,
                   applied, status, solver_values, csv_saved>>

DecodeAgain ==
    /\ pc = "decode_again"
    /\ assigned_shifts_df' =
          DecodeResults(status, solver_values, variables, employee_ids_of(employee_info_df),
                        dates, SHIFTS)
    /\ pc' = "decoded_twice"
    /\ UNCHANGED <<employee_info_df, dates, model, variables, all_penalty_terms, last_call,
                   applied, status, solver_values, csv_saved>>

NextDecode == DecodeSolved \/ DecodeAgain

SpecDecode == InitDecode /\ [][NextDecode]_vars

RunOrder == <<"load", "dates", "build">> \o PipelineOrder \o <<"solve", "save", "done">>
Rank(p) == IndexOf(RunOrder, p)[1]

TerminalStatuses == {"OPTIMAL", "FEASIBLE", "INFEASIBLE", "MODEL_INVALID", "UNKNOWN"}

\* the variable space and the base coverage are in the model
Built ==
    /\ variables # <<>>
    /\ Len(model.doms) >= NumEmployees * NumDays * Len(SHIFTS)
    /\ Len(model.cons) >= NumEmployees * NumDays

\* s is an initial segment of t
IsPrefix(s, t) == Len(s) <= Len(t) /\ SubSeq(t, 1, Len(s)) = s

\* C14: a run goes through main's steps in order: the variable space and
\* the coverage exist before any compiler runs, every compiler and the
\* objective come before the solve call, the solver runs at most once and
\* ends in exactly one terminal status, nothing changes the model once the
\* solve has started, and a run whose roster load or date range fails stops
\* with no model and is never solved.
C14_RunOrdering ==
    /\ [][pc' # pc => \/ Rank(pc') = Rank(pc) + 1
                      \/ pc \in {"load", "dates"} /\ pc' = "done" /\ status' = "NONE"]_vars
    /\ [][status' # status =>
            /\ pc = "solve" /\ pc' = "save"
            /\ status = "NONE" /\ status' \in TerminalStatuses]_vars
    /\ [][(pc \in {"solve", "save", "done"}) =>
            /\ model' = model /\ variables' = variables
            /\ all_penalty_terms' = all_penalty_terms /\ applied' = applied]_vars
    /\ [](pc \in {"load", "dates", "build"} =>
            /\ model.doms = <<>> /\ model.cons = <<>> /\ variables = <<>>
            /\ applied = <<>> /\ all_penalty_terms = <<>> /\ status = "NONE")
    /\ [][pc = "build" /\ pc' # pc =>
            /\ model'.doms = BaseAssembly.doms /\ model'.cons = BaseAssembly.cons
            /\ variables' # <<>>]_vars
    /\ [][Rank(pc) > Rank("build") =>
            /\ IsPrefix(model.doms, model'.doms) /\ IsPrefix(model.cons, model'.cons)
            /\ variables' = variables]_vars
    /\ [](Rank(pc) > Rank("build") /\ Rank(pc) < Rank("done") => Built)
    /\ [](pc \in {"save", "done"} /\ variables # <<>> =>
            /\ Solved /\ Built
            /\ model.minimize <=> all_penalty_terms # <<>>
            /\ model.minimize => model.objective = all_penalty_terms)
    /\ [](pc = "done" /\ (employee_info_df = <<>> \/ dates = <<>>) =>
            /\ status = "NONE" /\ model.doms = <<>> /\ variables = <<>>
            /\ assigned_shifts_df = NoTable /\ ~csv_saved)
    /\ [](Solved => pc \in {"save", "done"} /\ status \in TerminalStatuses)

C14_Witness ==
    /\ pc = "done" /\ status = "OPTIMAL" /\ csv_saved /\ model.minimize
    /\ Len(applied) = 2 /\ applied[1].family = "min_holidays" /\ applied[2].family = "status"
    /\ NumEmployees = 2 /\ NumDays = 2

(***************************************************************************)
(* Soft staffing.                                                          *)
(***************************************************************************)
\* the (date, floor, rule) triples of a staffing input, in the order the
\* compiler visits them
StaffingWork(staffing_rules) ==
    Flatten([d \in 1..NumDays |->
        Flatten([f \in 1..Len(staffing_rules) |->
            [r \in 1..Len(staffing_rules[f].rules) |->
                [d_idx |-> d, floor |-> staffing_rules[f].floor,
                 rule |-> staffing_rules[f].rules[r]]]])])

Cohort(floor) == {e \in 1..NumEmployees : employee_info_df[e].floor = floor}

\* the triples compiled in soft mode
SoftStaffingItems(staffing_rules) ==
    LET IsSoft(w) ==
            /\ Cohort(w.floor) # {}
            /\ w.rule.shift_name \in ShiftNames
            /\ w.rule.target # <<>>
            /\ Get(w.rule.constraint_type, "hard") = "soft"
    IN  SelectSeq(StaffingWork(staffing_rules), IsSoft)

\* the target of every soft rule is between 0 and the size of its cohort
TargetsWithinCohort(staffing_rules) ==
    \A i \in 1..Len(SoftStaffingItems(staffing_rules)) :
        LET w == SoftStaffingItems(staffing_rules)[i]
        IN  w.rule.target[1] >= 0 /\ w.rule.target[1] <= Cardinality(Cohort(w.floor))

\* the shortage and excess variables of the i-th soft triple of call k
ShortageVar(k, i) == SetMin(CallVariables(k)) + 2 * (i - 1)
ExcessVar(k, i) == ShortageVar(k, i) + 1

Max0(x) == IF x > 0 THEN x ELSE 0

\* the least penalty the soft rules of an input can charge for the table a
LeastStaffingPenalty(staffing_rules, a) ==
    LET items == SoftStaffingItems(staffing_rules)
        Charge(i) ==
            LET w == items[i]
                T == w.rule.target[1]
                actual == Cardinality({e \in Cohort(w.floor) :
                                          SHIFTS[a[<<e, w.d_idx>>]] = w.rule.shift_name})
            IN  Get(w.rule.under_penalty_weight, 0) * Max0(T - actual)
                  + Get(w.rule.over_penalty_weight, 0) * Max0(actual - T)
    IN  SumSeq([i \in 1..Len(items) |-> Charge(i)])

\* C15: for a compiled soft staffing rule with target T between 0 and the
\* cohort size, shortage ranges over 0..T, excess over 0..(cohort - T), and
\* every accepted Solution has T - actual = shortage - excess; with only
\* soft staffing compiled every one-shift-per-slot table stays feasible,
\* and the least penalty over the ways to complete a table is
\* u*max(0, T - actual) + o*max(0, actual - T) summed over the rules and
\* dates, a missing or zero weight charging nothing.
C15_SoftStaffing ==
    /\ \A k \in AppliedCalls({"staffing"}) :
          LET items == SoftStaffingItems(applied[k].input)
          IN  \A i \in 1..Len(items) :
                LET T == items[i].rule.target[1]
                    c == Cardinality(Cohort(items[i].floor))
                IN  (0 <= T /\ T <= c) =>
                      /\ model.doms[ShortageVar(k, i)] = <<0, T>>
                      /\ model.doms[ExcessVar(k, i)] = <<0, c - T>>
                      /\ Accepted =>
                            T - Cardinality({e \in Cohort(items[i].floor) :
                                    Cell(e, items[i].d_idx) = items[i].rule.shift_name})
                              = solver_values[ShortageVar(k, i)] - solver_values[ExcessVar(k, i)]
    /\ (/\ pc = "solve" /\ Len(applied) = 1 /\ applied[1].family = "staffing"
        /\ HardStaffingRules(applied[1].input) = {}
        /\ TargetsWithinCohort(applied[1].input)) =>
          LET feasible == Solutions(model)
              n == NumEmployees * NumDays * Len(SHIFTS)
          IN  \A a \in AllAssignments :
                LET ways == {v \in feasible : SubSeq(v, 1, n) = OneHot(a)}
                IN  /\ ways # {}
                    /\ SetMin({ObjectiveValue(all_penalty_terms, v) : v \in ways})
                          = LeastStaffingPenalty(applied[1].input, a)

\* two employees of the floor both on the day shift against a target of 1:
\* one in excess, charged the over weight, the shortage left at 0
C15_Witness ==
    /\ Accepted /\ NumEmployees = 2 /\ NumDays = 2
    /\ applied = <<[family |-> "staffing", input |-> StaffingInputs[3]]>>
    /\ Cell(1, 1) = "day" /\ Cell(2, 1) = "day"
    /\ solver_values[ShortageVar(1, 1)] = 0 /\ solver_values[ExcessVar(1, 1)] = 1
    /\ ObjectiveValue(all_penalty_terms, solver_values) = 1 + 2

(***************************************************************************)
(* Soft shift requests and the soft weekend/holiday rule.                  *)
(***************************************************************************)
\* the requests of a list compiled in soft mode, in list order:
\* <<employee index, date index, shift name, weight>>
SoftRequestItems(shift_requests) ==
    LET IsSoft(r) ==
            /\ r.employee_id # <<>> /\ r.date_str # <<>> /\ r.requested_shift # <<>>
            /\ Get(r.constraint_type, "soft") = "soft"
            /\ Get(r.penalty_weight, 0) > 0
            /\ r.employee_id[1] \in SeqToSet(employee_ids_of(employee_info_df))
            /\ strptime(r.date_str[1]) # <<>>
            /\ strptime(r.date_str[1])[1] \in SeqToSet(dates)
            /\ r.requested_shift[1] \in ShiftNames
        Item(r) == <<IndexOf(employee_ids_of(employee_info_df), r.employee_id[1])[1],
                     IndexOf(dates, strptime(r.date_str[1])[1])[1],
                     r.requested_shift[1], r.penalty_weight[1]>>
        soft == SelectSeq(shift_requests, IsSoft)
    IN  [i \in 1..Len(soft) |-> Item(soft[i])]

\* the (employee, date) cells a soft weekend/holiday rule asks the rest
\* shift for, in the order the compiler visits them
SoftWeekendItems(rule) ==
    LET targets == IF Get(rule.target_employee_ids, <<>>) # <<>>
                   THEN KnownEmployeeIndices(employee_ids_of(employee_info_df),
                                             rule.target_employee_ids[1])
                   ELSE [i \in 1..NumEmployees |-> i]
    IN  IF Get(rule.constraint_type, "hard") = "soft" /\ Get(rule.penalty_weight, 0) > 0
        THEN Flatten([d \in 1..NumDays |->
                IF weekday(dates[d]) >= 5 \/ InSeq(dates[d], rule.holidays_list)
                THEN [i \in 1..Len(targets) |-> <<targets[i], d, "rest", rule.penalty_weight[1]>>]
                ELSE <<>>])
        ELSE <<>>

SoftItems(k) ==
    IF applied[k].family = "shift_request" THEN SoftRequestItems(applied[k].input)
    ELSE SoftWeekendItems(applied[k].input)

\* the violation indicator of the i-th soft item of call k
ViolationVar(k, i) == SetMin(CallVariables(k)) + i - 1

NotHonored(item) == Cell(item[1], item[2]) # item[3]

\* the call compiled only soft items
OnlySoftItems(k) ==
    /\ SoftItems(k) # <<>>
    /\ Len(CallOutput(k).cons) = Len(BaseAssembly.cons) + Len(SoftItems(k))

\* C16: for a compiled soft shift request, and for each cell of a compiled
\* soft weekend/holiday rule, with weight W > 0: in every accepted Solution,
\* optimal or not, the violation indicator is 1 exactly when the employee
\* does not hold the requested shift on that date, so that the rule
\* contributes W for each request not honored and 0 for each one honored;
\* with only such a rule compiled every one-shift-per-slot table stays
\* feasible.
C16_SoftRequest ==
    /\ Accepted =>
          \A k \in AppliedCalls({"shift_request", "weekend_holiday"}) :
              /\ \A i \in 1..Len(SoftItems(k)) :
                    /\ solver_values[ViolationVar(k, i)] \in {0, 1}
                    /\ solver_values[ViolationVar(k, i)] = 1 <=> NotHonored(SoftItems(k)[i])
                    /\ CallPenalties(k)[i] = <<ViolationVar(k, i), SoftItems(k)[i][4]>>
              /\ Len(CallPenalties(k)) = Len(SoftItems(k))
              /\ CallContribution(k) =
                    SumSeq([i \in 1..Len(SoftItems(k)) |->
                               IF NotHonored(SoftItems(k)[i]) THEN SoftItems(k)[i][4] ELSE 0])
    /\ (/\ pc = "solve" /\ Len(applied) = 1
        /\ applied[1].family \in {"shift_request", "weekend_holiday"}
        /\ OnlySoftItems(1)) =>
          LET feasible == Solutions(model)
              n == NumEmployees * NumDays * Len(SHIFTS)
          IN  \A a \in AllAssignments : \E v \in feasible : SubSeq(v, 1, n) = OneHot(a)

\* a solution reported as feasible, not optimal: the request of A001 for
\* the day shift is honored and costs 0, the holiday rest of A001 is not
\* and costs the weight of the weekend/holiday rule
C16_Witness ==
    /\ Accepted /\ status = "FEASIBLE" /\ NumEmployees = 2 /\ NumDays = 2
    /\ applied = <<[family |-> "shift_request", input |-> ShiftRequestInputs[3]],
                   [family |-> "weekend_holiday", input |-> WeekendHolidayInputs[3]]>>
    /\ Cell(1, 1) = "day" /\ Cell(2, 1) = "rest"
    /\ solver_values[ViolationVar(1, 1)] = 0
    /\ solver_values[ViolationVar(2, 1)] = 1 /\ solver_values[ViolationVar(2, 2)] = 0
    /\ CallContribution(1) = 0 /\ CallContribution(2) = 2

(***************************************************************************)
(* The sequential-shift rule.                                              *)
(***************************************************************************)
SequentialKnown(rule) ==
    /\ rule.previous_shift_name # <<>> /\ rule.previous_shift_name[1] \in ShiftNames
    /\ rule.next_shift_name # <<>> /\ rule.next_shift_name[1] \in ShiftNames

SequentialIsHard(rule) == SequentialKnown(rule) /\ Get(rule.constraint_type, "hard") = "hard"

\* the (employee, date) pairs of table a with `previous` on d and not `next`
\* on d + 1
ViolatingPairs(rule, a) ==
    {w \in (1..NumEmployees) \X (1..(NumDays - 1)) :
        /\ SHIFTS[a[<<w[1], w[2]>>]] = rule.previous_shift_name[1]
        /\ SHIFTS[a[<<w[1], w[2] + 1>>]] # rule.next_shift_name[1]}

\* the solved table as a table of shift indices
SolvedAssignment == [w \in Slots |-> IndexOf(SHIFTS, Cell(w[1], w[2]))[1]]

\* C17: under a compiled hard sequential rule, every accepted Solution that
\* gives an employee `previous` on a date d before the last gives that
\* employee `next` on d + 1; the rule adds one constraint per employee and
\* adjacent date pair and nothing else: with only that rule compiled the
\* feasible tables are exactly those with no such pair, so `previous` on
\* the last date and any shift after a date without `previous` stay
\* allowed.
C17_SequentialHard ==
    /\ Accepted =>
          \A rule \in AppliedInputs("sequential") :
              SequentialIsHard(rule) =>
                  \A e \in 1..NumEmployees : \A d \in 1..(NumDays - 1) :
                      Cell(e, d) = rule.previous_shift_name[1] =>
                          Cell(e, d + 1) = rule.next_shift_name[1]
    /\ (/\ pc = "solve" /\ Len(applied) = 1 /\ applied[1].family = "sequential"
        /\ SequentialIsHard(applied[1].input)) =>
          LET feasible == Solutions(model)
          IN  /\ Len(model.cons) = Len(BaseAssembly.cons) + NumEmployees * (NumDays - 1)
              /\ Len(model.doms) = Len(BaseAssembly.doms)
              /\ \A a \in AllAssignments :
                    OneHot(a) \in feasible <=> ViolatingPairs(applied[1].input, a) = {}

\* night, rest, and night again on the last date, which nothing follows
C17_Witness ==
    /\ Accepted /\ NumEmployees = 1 /\ NumDays = 3
    /\ applied = <<[family |-> "sequential", input |-> SequentialInputs[1]]>>
    /\ Cell(1, 1) = "night" /\ Cell(1, 2) = "rest" /\ Cell(1, 3) = "night"

SequentialIsSoft(rule) ==
    /\ SequentialKnown(rule)
    /\ Get(rule.constraint_type, "hard") = "soft"
    /\ Get(rule.penalty_weight, 0) > 0

\* the violation indicator of (e, d) in a soft sequential call k: the
\* compiler visits the employees in order and, for each, the dates but the
\* last
SequentialVar(k, e, d) == SetMin(CallVariables(k)) + (e - 1) * (NumDays - 1) + d - 1

\* C18: under a compiled soft sequential rule with weight W > 0, in every
\* accepted Solution the indicator of (employee, d) is 1 whenever the
\* employee holds `previous` on d and not `next` on d + 1; with only that
\* rule compiled every one-shift-per-slot table stays feasible, also with
\* every indicator at 1, violated or not; the penalty of the rule is at
\* least W times the number of violating pairs, and equal to it in the
\* solutions reported optimal.
C18_SequentialSoft ==
    /\ Accepted =>
          \A k \in AppliedCalls({"sequential"}) :
              SequentialIsSoft(applied[k].input) =>
                  LET W == applied[k].input.penalty_weight[1]
                      violating == ViolatingPairs(applied[k].input, SolvedAssignment)
                  IN  /\ \A w \in violating : solver_values[SequentialVar(k, w[1], w[2])] = 1
                      /\ CallContribution(k) >= W * Cardinality(violating)
                      /\ status = "OPTIMAL" => CallContribution(k) = W * Cardinality(violating)
    /\ (/\ pc = "solve" /\ Len(applied) = 1 /\ applied[1].family = "sequential"
        /\ SequentialIsSoft(applied[1].input)) =>
          LET feasible == Solutions(model)
          IN  \A a \in AllAssignments :
                /\ OneHot(a) \o Ones(NumEmployees * (NumDays - 1)) \in feasible
                /\ \A v \in feasible :
                      SubSeq(v, 1, Len(BaseAssembly.doms)) = OneHot(a) =>
                          \A w \in ViolatingPairs(applied[1].input, a) :
                              v[SequentialVar(1, w[1], w[2])] = 1

\* a solution reported as feasible: night then day is a violation and its
\* indicator is 1; day then day is none and its indicator is 1 all the same
C18_Witness ==
    /\ Accepted /\ status = "FEASIBLE" /\ NumEmployees = 1 /\ NumDays = 3
    /\ applied = <<[family |-> "sequential", input |-> SequentialInputs[2]]>>
    /\ Cell(1, 1) = "night" /\ Cell(1, 2) = "day" /\ Cell(1, 3) = "day"
    /\ solver_values[SequentialVar(1, 1, 1)] = 1 /\ solver_values[SequentialVar(1, 1, 2)] = 1
    /\ CallContribution(1) = 6

(***************************************************************************)
(* The balance rule in hard mode.                                          *)
(***************************************************************************)
BalanceCohort(rule) ==
    {e \in 1..NumEmployees : employee_info_df[e].etype = Get(rule.target_employment_type, "")}

BalanceIsHard(rule) ==
    /\ rule.target_employment_type # <<>>
    /\ rule.target_shift_name # <<>> /\ rule.target_shift_name[1] \in ShiftNames
    /\ Get(rule.constraint_type, "soft") = "hard"
    /\ rule.max_diff_allowed # <<>> /\ rule.max_diff_allowed[1] >= 0

\* max minus min, over the cohort, of the number of dates of table a with
\* the shift
SpreadOf(a, cohort, shift_name) ==
    LET counts == {Cardinality({d \in 1..NumDays : SHIFTS[a[<<e, d>>]] = shift_name}) :
                      e \in cohort}
    IN  SetMax(counts) - SetMin(counts)

\* C19: under a compiled hard balance rule with allowed maximum X >= 0 for a
\* cohort of at least two employees, every accepted Solution has max - min
\* of the cohort's per-employee counts of the target shift <= X, and with
\* only that rule compiled the feasible tables are exactly those; a balance
\* call for a cohort of 0 or 1 employees leaves the model and the penalty
\* terms as they were, and a hard one for a larger cohort adds constraints
\* and no penalty term.
C19_HardBalance ==
    /\ [](Accepted =>
            \A k \in AppliedCalls({"balance_holidays", "balance_night"}) :
                (BalanceIsHard(applied[k].input)
                    /\ Cardinality(BalanceCohort(applied[k].input)) >= 2) =>
                        SpreadOf(SolvedAssignment, BalanceCohort(applied[k].input),
                                 applied[k].input.target_shift_name[1])
                            <= applied[k].input.max_diff_allowed[1])
    /\ []((/\ pc = "solve" /\ Len(applied) = 1
           /\ applied[1].family \in {"balance_holidays", "balance_night"}
           /\ BalanceIsHard(applied[1].input)) =>
            LET feasible == Solutions(model)
                n == NumEmployees * NumDays * Len(SHIFTS)
                rule == applied[1].input
            IN  /\ Cardinality(BalanceCohort(rule)) >= 2
                /\ \A a \in AllAssignments :
                      (\E v \in feasible : SubSeq(v, 1, n) = OneHot(a)) <=>
                          SpreadOf(a, BalanceCohort(rule), rule.target_shift_name[1])
                              <= rule.max_diff_allowed[1])
    /\ [][(/\ pc \in {"balance_holidays", "balance_night"} /\ pc' # pc
           /\ Cardinality(BalanceCohort(last_call'.input)) <= 1) =>
              /\ model' = model
              /\ all_penalty_terms' = all_penalty_terms
              /\ applied' = applied]_vars
    /\ [][(/\ pc \in {"balance_holidays", "balance_night"} /\ pc' # pc
           /\ BalanceIsHard(last_call'.input)
           /\ Cardinality(BalanceCohort(last_call'.input)) >= 2) =>
              /\ applied' = Append(applied, last_call')
              /\ Len(model'.cons) > Len(model.cons)
              /\ all_penalty_terms' = all_penalty_terms]_vars

\* two nights each for the two full-time employees
C19_Witness ==
    /\ Accepted /\ NumEmployees = 2 /\ NumDays = 2
    /\ applied = <<[family |-> "balance_night", input |-> BalanceInputs[2]]>>
    /\ \A e \in 1..2 : \A d \in 1..2 : Cell(e, d) = "night"

(***************************************************************************)
(* The total-workdays rule in its hard modes.                              *)
(***************************************************************************)
\* the names of SHIFTS that count as work
WorkingNames == SeqToSet(WORKING_SHIFTS_FOR_DAILY_TOTAL) \cap ShiftNames

\* the rules of a list compiled in a hard mode:
\* <<employee index, mode, target day count>>
HardWorkdaysRules(workdays_rules) ==
    {<<IndexOf(employee_ids_of(employee_info_df), workdays_rules[i].employee_id[1])[1],
       workdays_rules[i].constraint_type[1], workdays_rules[i].days[1]>> :
        i \in {j \in 1..Len(workdays_rules) :
            /\ workdays_rules[j].employee_id # <<>>
            /\ workdays_rules[j].constraint_type # <<>>
            /\ workdays_rules[j].days # <<>>
            /\ workdays_rules[j].employee_id[1] \in SeqToSet(employee_ids_of(employee_info_df))
            /\ workdays_rules[j].constraint_type[1] \in {"exact", "max", "min"}}}

\* the number of dates of table a on which employee e holds a working shift
WorkdaysOf(a, e) == Cardinality({d \in 1..NumDays : SHIFTS[a[<<e, d>>]] \in WorkingNames})

WithinTarget(count, mode, N) ==
    CASE mode = "exact" -> count = N
      [] mode = "max" -> count <= N
      [] mode = "min" -> count >= N

\* C20: under a compiled total-workdays rule in a hard mode for a known
\* employee with target N, the number of dates on which that employee holds
\* a working shift, the rest shift never counting, is N under exact, at
\* most N under max and at least N under min in every accepted Solution;
\* with only hard total-workdays rules compiled the feasible tables are
\* exactly those meeting every rule, whatever the other employees hold.
C20_TotalWorkdays ==
    /\ "rest" \notin WorkingNames
    /\ Accepted =>
          \A workdays_rules \in AppliedInputs("total_workdays") :
              \A h \in HardWorkdaysRules(workdays_rules) :
                  WithinTarget(WorkdaysOf(SolvedAssignment, h[1]), h[2], h[3])
    /\ (/\ pc = "solve" /\ Len(applied) = 1 /\ applied[1].family = "total_workdays"
        /\ Len(model.doms) = Len(BaseAssembly.doms)) =>
          LET feasible == Solutions(model)
              hard == HardWorkdaysRules(applied[1].input)
          IN  /\ Len(model.cons) = Len(BaseAssembly.cons) + Cardinality(hard)
              /\ \A a \in AllAssignments :
                    OneHot(a) \in feasible <=>
                        \A h \in hard : WithinTarget(WorkdaysOf(a, h[1]), h[2], h[3])

\* A001 at most one working day, A002 at least one
C20_Witness ==
    /\ Accepted /\ NumEmployees = 2 /\ NumDays = 2
    /\ applied = <<[family |-> "total_workdays", input |-> TotalWorkdaysInputs[2]]>>
    /\ Cell(1, 1) = "day" /\ Cell(1, 2) = "rest"
    /\ Cell(2, 1) = "night" /\ Cell(2, 2) = "day"

(***************************************************************************)
(* The total-workdays rule in its soft modes.                              *)
(***************************************************************************)
\* the rules of a list compiled in a soft mode, in list order:
\* <<employee index, mode, target day count, weight>>
SoftWorkdaysItems(workdays_rules) ==
    LET IsSoft(r) ==
            /\ r.employee_id # <<>> /\ r.constraint_type # <<>> /\ r.days # <<>>
            /\ r.employee_id[1] \in SeqToSet(employee_ids_of(employee_info_df))
            /\ r.constraint_type[1] \in {"soft_exact", "soft_max", "soft_min"}
            /\ Get(r.penalty_weight, 0) > 0
        soft == SelectSeq(workdays_rules, IsSoft)
    IN  [i \in 1..Len(soft) |->
            <<IndexOf(employee_ids_of(employee_info_df), soft[i].employee_id[1])[1],
              soft[i].constraint_type[1], soft[i].days[1], soft[i].penalty_weight[1]>>]

\* the deviation variable of the i-th soft rule of call k
DeviationVar(k, i) == SetMin(CallVariables(k)) + i - 1

Abs(x) == IF x >= 0 THEN x ELSE -x

\* the deviation a soft mode charges for a count of worked days
Deviation(mode, count, N) ==
    CASE mode = "soft_exact" -> Abs(count - N)
      [] mode = "soft_max" -> Max0(count - N)
      [] mode = "soft_min" -> Max0(N - count)

\* every compiled rule of the list is soft_exact with a target in the horizon
OnlySoftExactInHorizon(workdays_rules) ==
    /\ HardWorkdaysRules(workdays_rules) = {}
    /\ SoftWorkdaysItems(workdays_rules) # <<>>
    /\ \A i \in 1..Len(SoftWorkdaysItems(workdays_rules)) :
          LET it == SoftWorkdaysItems(workdays_rules)[i]
          IN  it[2] = "soft_exact" /\ it[3] >= 0 /\ it[3] <= NumDays

\* C21: under a compiled soft_exact total-workdays rule with weight W > 0
\* and target N between 0 and the horizon length, the deviation variable is
\* at least |workdays - N| in every accepted Solution; with only such rules
\* compiled every one-shift-per-slot table stays feasible and the least
\* penalty over the ways to complete a table is W * |workdays - N|, above
\* and below the target alike.
C21_SoftExactWorkdays ==
    /\ Accepted =>
          \A k \in AppliedCalls({"total_workdays"}) :
              \A i \in 1..Len(SoftWorkdaysItems(applied[k].input)) :
                  LET it == SoftWorkdaysItems(applied[k].input)[i]
                  IN  (it[2] = "soft_exact" /\ it[3] >= 0 /\ it[3] <= NumDays) =>
                          /\ solver_values[DeviationVar(k, i)]
                                >= Abs(WorkdaysOf(SolvedAssignment, it[1]) - it[3])
                          /\ CallPenalties(k)[i] = <<DeviationVar(k, i), it[4]>>
    /\ (/\ pc = "solve" /\ Len(applied) = 1 /\ applied[1].family = "total_workdays"
        /\ OnlySoftExactInHorizon(applied[1].input)) =>
          LET feasible == Solutions(model)
              n == NumEmployees * NumDays * Len(SHIFTS)
              items == SoftWorkdaysItems(applied[1].input)
          IN  \A a \in AllAssignments :
                LET ways == {v \in feasible : SubSeq(v, 1, n) = OneHot(a)}
                IN  /\ ways # {}
                    /\ SetMin({ObjectiveValue(all_penalty_terms, v) : v \in ways})
                          = SumSeq([i \in 1..Len(items) |->
                                items[i][4] * Abs(WorkdaysOf(a, items[i][1]) - items[i][3])])

\* A001 works no day against a target of one: one day short, charged once
C21_Witness ==
    /\ Accepted /\ status = "FEASIBLE" /\ NumEmployees = 1 /\ NumDays = 3
    /\ applied = <<[family |-> "total_workdays", input |-> TotalWorkdaysInputs[3]]>>
    /\ \A d \in 1..3 : Cell(1, d) = "rest"
    /\ solver_values[DeviationVar(1, 1)] = 1
    /\ ObjectiveValue(all_penalty_terms, solver_values) = 2

(***************************************************************************)
(* The weekend/holiday rule in hard mode.                                  *)
(***************************************************************************)
\* the employees a weekend/holiday rule targets: the listed ids the roster
\* knows, or everyone when no id is listed
WeekendTargets(rule) ==
    IF Get(rule.target_employee_ids, <<>>) # <<>>
    THEN {e \in 1..NumEmployees :
              employee_info_df[e].id \in SeqToSet(rule.target_employee_ids[1])}
    ELSE 1..NumEmployees

\* the horizon dates that are a Saturday, a Sunday or a listed holiday
RestDates(rule) ==
    {d \in 1..NumDays :
        weekday(dates[d]) \in {5, 6} \/ dates[d] \in SeqToSet(rule.holidays_list)}

WeekendIsHard(rule) == Get(rule.constraint_type, "hard") = "hard"

\* C22: under a compiled hard weekend/holiday rule every target employee
\* holds the rest shift on every horizon date that is a Saturday, a Sunday
\* or a listed holiday, in every accepted Solution; the targets are all
\* employees when no id is listed; with only that rule compiled the
\* feasible tables are exactly those, so that other dates and other
\* employees stay free.
C22_WeekendHard ==
    /\ Accepted =>
          \A rule \in AppliedInputs("weekend_holiday") :
              WeekendIsHard(rule) =>
                  \A e \in WeekendTargets(rule) : \A d \in RestDates(rule) :
                      Cell(e, d) = "rest"
    /\ (/\ pc = "solve" /\ Len(applied) = 1 /\ applied[1].family = "weekend_holiday"
        /\ WeekendIsHard(applied[1].input)) =>
          LET feasible == Solutions(model)
              rule == applied[1].input
          IN  /\ Len(model.doms) = Len(BaseAssembly.doms)
              /\ \A a \in AllAssignments :
                    OneHot(a) \in feasible <=>
                        \A e \in WeekendTargets(rule) : \A d \in RestDates(rule) :
                            SHIFTS[a[<<e, d>>]] = "rest"

\* Thursday is a listed holiday, Friday is free, Saturday is a weekend day
C22_Witness ==
    /\ Accepted /\ NumEmployees = 1 /\ NumDays = 3
    /\ applied = <<[family |-> "weekend_holiday", input |-> WeekendHolidayInputs[2]]>>
    /\ RestDates(WeekendHolidayInputs[2]) = {1, 3}
    /\ Cell(1, 1) = "rest" /\ Cell(1, 2) = "day" /\ Cell(1, 3) = "rest"

(***************************************************************************)
(* Penalty aggregation.                                                    *)
(***************************************************************************)
\* the terms returned by the first k compiler calls that changed the model,
\* in call order
RECURSIVE ReturnedTerms(_)
ReturnedTerms(k) == IF k = 0 THEN <<>> ELSE ReturnedTerms(k - 1) \o CallPenalties(k)

RECURSIVE ContributionSum(_)
ContributionSum(k) == IF k = 0 THEN 0 ELSE ContributionSum(k - 1) + CallContribution(k)

\* C23: the penalty terms collected by the run are the terms returned by
\* every invoked compiler, each once and none dropped; the objective handed
\* to the solver is their sum, minimized when at least one term exists;
\* when none exists no objective is set and every feasible assignment may
\* be returned.
C23_PenaltyAggregation ==
    /\ Built => all_penalty_terms = ReturnedTerms(Len(applied))
    /\ (pc \in {"solve", "save", "done"} /\ Built) =>
          IF all_penalty_terms # <<>>
          THEN model.minimize /\ model.objective = ReturnedTerms(Len(applied))
          ELSE ~model.minimize /\ model.objective = <<>>
    /\ Accepted =>
          ObjectiveValue(model.objective, solver_values) = ContributionSum(Len(applied))
    /\ (pc = "solve" /\ ~ModelInvalid(model)) =>
          LET feasible == Solutions(model)
              terms == ReturnedTerms(Len(applied))
              optimal == {o[2] : o \in {x \in SolveOutcomes(model) : x[1] = "OPTIMAL"}}
              least == SetMin({ObjectiveValue(terms, v) : v \in feasible})
          IN  feasible # {} =>
                  IF all_penalty_terms # <<>>
                  THEN optimal = {v \in feasible : ObjectiveValue(terms, v) = least}
                  ELSE optimal = feasible

\* two compiled soft rules, each charged in the accepted Solution
C23_Witness ==
    /\ Accepted /\ Len(applied) = 2 /\ model.minimize
    /\ CallPenalties(1) # <<>> /\ CallPenalties(2) # <<>>
    /\ CallContribution(1) > 0 /\ CallContribution(2) > 0
    /\ ObjectiveValue(model.objective, solver_values)
           = CallContribution(1) + CallContribution(2)

(***************************************************************************)
(* The registry of assignment variables.                                   *)
(***************************************************************************)
Triples == (1..NumEmployees) \X (1..NumDays) \X (1..Len(SHIFTS))

NumAssignmentVars == NumEmployees * NumDays * Len(SHIFTS)

\* C24: the build step registers exactly E*D*S assignment variables, one
\* boolean per (employee, date, shift) triple, no triple missing and no two
\* triples sharing a variable; no compiler call adds, removes or replaces
\* an entry of the registry: the variables a compiler creates are new ones,
\* outside the registry, and the registered ones keep their domains.
C24_VariableSpace ==
    /\ [](Built =>
            /\ DOMAIN variables = Triples
            /\ \A t, u \in Triples : variables[t] = variables[u] => t = u
            /\ {variables[t] : t \in Triples} = 1..NumAssignmentVars
            /\ \A t \in Triples : model.doms[variables[t]] = <<0, 1>>)
    /\ [][pc = "build" /\ pc' # pc =>
              /\ Len(model'.doms) = Len(employee_info_df) * Len(dates) * Len(SHIFTS)
              /\ Cardinality(DOMAIN variables') = Len(model'.doms)]_vars
    /\ [][Rank(pc) > Rank("build") =>
              /\ variables' = variables
              /\ IsPrefix(model.doms, model'.doms)
              /\ \A t \in Triples : variables[t] <= Len(model.doms)]_vars

\* a compiled soft rule has created an auxiliary variable beside the 12
\* registered ones
C24_Witness ==
    /\ pc = "solve" /\ NumEmployees = 2 /\ NumDays = 2
    /\ Cardinality(DOMAIN variables) = 12
    /\ Len(model.doms) > 12
    /\ {variables[t] : t \in Triples} = 1..12

(***************************************************************************)
(* An avoid rule that names an unknown shift.                              *)
(***************************************************************************)
NamesUnknownShift(rule) ==
    /\ rule.avoid_shifts # <<>>
    /\ \E name \in SeqToSet(rule.avoid_shifts[1]) : name \notin ShiftNames

WithoutUnknownNamed(avoid_rules) ==
    SelectSeq(avoid_rules, LAMBDA r : ~NamesUnknownShift(r))

\* the feasible tables of a model with only an avoid call compiled are the
\* tables in which no pair shares a disallowed shift
AvoidFeasibleAre(pairs) ==
    LET feasible == Solutions(model)
    IN  /\ Len(model.doms) = Len(BaseAssembly.doms)
        /\ \A a \in AllAssignments :
              OneHot(a) \in feasible <=> NoSharedAvoidedShift(a, pairs)

OnlyAvoidCompiled == pc = "solve" /\ Len(applied) = 1 /\ applied[1].family = "avoid"

AvoidCallDone == pc = "avoid" /\ pc' # pc

\* C25 as stated: an avoid rule whose list names a shift that the shift
\* list does not know is skipped as a whole: it adds no constraint for any
\* date, also not for the known shifts of its list.
C25_WholeRuleSkipped ==
    /\ [](OnlyAvoidCompiled =>
            AvoidFeasibleAre(HardAvoidPairs(WithoutUnknownNamed(applied[1].input))))
    /\ [][(AvoidCallDone /\ WithoutUnknownNamed(last_call'.input) = <<>>) =>
              model' = model /\ applied' = applied]_vars

\* C25: an avoid rule whose list names a shift that the shift list does not
\* know loses only that name: for every known shift of its list the pair
\* constraint is still added on every date, and the rule is skipped only
\* when none of its listed names is known.
C25_UnknownNameDropped ==
    /\ [](OnlyAvoidCompiled => AvoidFeasibleAre(HardAvoidPairs(applied[1].input)))
    /\ [](Accepted =>
            \A avoid_rules \in AppliedInputs("avoid") :
                \A h \in HardAvoidPairs(SelectSeq(avoid_rules, NamesUnknownShift)) :
                    \A d \in 1..NumDays :
                        ~(Cell(h[1], d) = Cell(h[2], d) /\ Cell(h[1], d) \in h[3]))
    /\ [][AvoidCallDone =>
              LET pairs == HardAvoidPairs(last_call'.input)
                  known == {h \in pairs : h[3] # {}}
              IN  IF known = {}
                  THEN model' = model /\ applied' = applied
                  ELSE /\ applied' = Append(applied, last_call')
                       /\ Len(model'.cons) > Len(model.cons)
                       /\ Len(model'.doms) = Len(model.doms)]_vars

\* the rule lists an unknown name and "day": both employees may share
\* "night", and they do not share "day"
C25_Witness ==
    /\ Accepted /\ NumEmployees = 2 /\ NumDays = 2
    /\ applied = <<[family |-> "avoid", input |-> AvoidInputs[3]]>>
    /\ NamesUnknownShift(AvoidInputs[3][1])
    /\ Cell(1, 1) = "night" /\ Cell(2, 1) = "night"
    /\ Cell(1, 2) = "day" /\ Cell(2, 2) = "rest"

(***************************************************************************)
(* Soft staffing with a target above the cohort size.                      *)
(***************************************************************************)
NonNegativeTargets(staffing_rules) ==
    \A i \in 1..Len(SoftStaffingItems(staffing_rules)) :
        SoftStaffingItems(staffing_rules)[i].rule.target[1] >= 0

OnlySoftStaffingCompiled ==
    /\ Len(applied) = 1 /\ applied[1].family = "staffing"
    /\ HardStaffingRules(applied[1].input) = {}
    /\ NonNegativeTargets(applied[1].input)

\* C26: a soft staffing rule with any non-negative target, also one above
\* the number of employees of the floor, removes no feasible assignment and
\* never makes the model infeasible or invalid: with only soft staffing
\* compiled every one-shift-per-slot table can be completed to a solution
\* and the solve ends Optimal or Feasible.
C26_SoftStaffingOnlyCosts ==
    /\ (pc = "solve" /\ OnlySoftStaffingCompiled) =>
          LET feasible == Solutions(model)
              n == NumEmployees * NumDays * Len(SHIFTS)
          IN  /\ ~ModelInvalid(model)
              /\ \A a \in AllAssignments :
                    \E v \in feasible : SubSeq(v, 1, n) = OneHot(a)
    /\ (Solved /\ OnlySoftStaffingCompiled) => status \in {"OPTIMAL", "FEASIBLE"}

(***************************************************************************)
(* Soft total-workdays rules with a target outside the horizon.            *)
(***************************************************************************)
OnlySoftWorkdaysCompiled ==
    /\ Len(applied) = 1 /\ applied[1].family = "total_workdays"
    /\ HardWorkdaysRules(applied[1].input) = {}
    /\ SoftWorkdaysItems(applied[1].input) # <<>>

\* C27: a soft_exact, soft_max or soft_min total-workdays rule with positive
\* weight removes no feasible assignment, whatever its target day count,
\* also one above the horizon length or below 0: with only such rules
\* compiled every one-shift-per-slot table, so every number of worked days
\* from 0 to the horizon length, can be completed to a solution, and the
\* solve ends Optimal or Feasible.
C27_SoftWorkdaysOnlyCosts ==
    /\ (pc = "solve" /\ OnlySoftWorkdaysCompiled) =>
          LET feasible == Solutions(model)
              n == NumEmployees * NumDays * Len(SHIFTS)
          IN  \A a \in AllAssignments :
                  \E v \in feasible : SubSeq(v, 1, n) = OneHot(a)
    /\ (Solved /\ OnlySoftWorkdaysCompiled) => status \in {"OPTIMAL", "FEASIBLE"}

(***************************************************************************)
(* Order independence of the assembly.                                     *)
(***************************************************************************)
Reverse(s) == [i \in 1..Len(s) |-> s[Len(s) + 1 - i]]

\* the compilers whose input is a list of rule instances
ListFamilies == {"staffing", "shift_request", "avoid", "total_workdays"}

\* the tables an assembly admits, each with the objective values its
\* solutions give it
CostedTables(doms, cons, terms) ==
    {<<SubSeq(v, 1, NumAssignmentVars), ObjectiveValue(terms, v)>> :
        v \in Solutions([doms |-> doms, cons |-> cons])}

\* the two applied calls compiled in the other order
SwappedAssembly ==
    Compile(Compile(BaseAssembly, applied[2].family, applied[2].input),
            applied[1].family, applied[1].input)

\* the one applied call compiled with its list in the opposite order
ReversedAssembly ==
    Compile(BaseAssembly, applied[1].family, Reverse(applied[1].input))

\* C28: a compiler call only appends variables, constraints and penalty
\* terms to what is already assembled; the feasible tables and the
\* objective values of each table are the same when two compiler calls are
\* applied in the other order and when the instances of a list are applied
\* in the opposite order; every solution is a one-shift-per-slot table.
C28_OrderIndependence ==
    /\ [][Rank(pc) > Rank("build") =>
              /\ IsPrefix(model.doms, model'.doms)
              /\ IsPrefix(model.cons, model'.cons)
              /\ IsPrefix(all_penalty_terms, all_penalty_terms')]_vars
    /\ []((pc = "solve" /\ Len(applied) = 2) =>
              CostedTables(model.doms, model.cons, all_penalty_terms)
                  = CostedTables(SwappedAssembly.doms, SwappedAssembly.cons,
                                 SwappedAssembly.pen))
    /\ []((pc = "solve" /\ Len(applied) = 1 /\ applied[1].family \in ListFamilies) =>
              CostedTables(model.doms, model.cons, all_penalty_terms)
                  = CostedTables(ReversedAssembly.doms, ReversedAssembly.cons,
                                 ReversedAssembly.pen))
    /\ [](pc = "solve" =>
              \A v \in Solutions(model) :
                  SubSeq(v, 1, NumAssignmentVars) \in {OneHot(a) : a \in AllAssignments})

\* a soft call followed by a call of another family that adds constraints:
\* the other order gives another constraint list with the same solutions
C28_Witness ==
    /\ pc = "solve" /\ Len(applied) = 2
    /\ applied[1].family # applied[2].family
    /\ CallPenalties(1) # <<>>
    /\ Len(CallOutput(2).cons) > Len(CallOutput(1).cons)
    /\ SwappedAssembly.cons # model.cons
    /\ Solutions(model) # {}
    /\ Cardinality({SubSeq(v, 1, NumAssignmentVars) : v \in Solutions(model)})
           < Cardinality(AllAssignments)

====
